---- MODULE Spec2Model ----
(***************************************************************************)
(* WeatherBoard: the weather cache (services/WeatherService), the          *)
(* favorites toggle (services/FavoritesService), the favorites reconciler  *)
(* (services/FavoritesUpdateService) and the favorite predicates of        *)
(* api/graphql and screens/FavoritesScreen.                                *)
(*                                                                         *)
(* Scheduling model: JavaScript's single-threaded cooperative concurrency. *)
(* One action is one resumption of an async function: the awaited I/O      *)
(* takes effect and the code runs on to its next await.                    *)
(***************************************************************************)
EXTENDS Integers, Sequences, FiniteSets, TLC

(***************************************************************************)
(* Bounds                                                                  *)
(***************************************************************************)
MaxNet == 4      \* network round-trips (current + forecast pair) per behaviour
MaxTicks == 1    \* clock advances per behaviour

(***************************************************************************)
(* Program constants                                                       *)
(***************************************************************************)
CACHE_EXPIRATION == 3600000
batchSize == 3

(***************************************************************************)
(* JavaScript objects used as maps: functions with a partial domain        *)
(***************************************************************************)
EmptyMap == << >>
Has(m, k) == k \in DOMAIN m
Put(m, k, v) == [y \in (DOMAIN m) \cup {k} |-> IF y = k THEN v ELSE m[y]]
DelNever(m, k) == m
Del(m, k) == [y \in (DOMAIN m) \ {k} |-> m[y]]
Null == [null |-> TRUE]
Get(m, k) == IF Has(m, k) THEN m[k] ELSE Null

(***************************************************************************)
(* Cities.  CityA and CityA2 share name and country (one cache key) but    *)
(* have different coordinates.                                             *)
(***************************************************************************)
CityA == [name |-> "Paris", country |-> "FR", lat |-> 1, lon |-> 1]
CityA2 == [name |-> "Paris", country |-> "FR", lat |-> 2, lon |-> 2]
CityB == [name |-> "Rome", country |-> "IT", lat |-> 3, lon |-> 3]
Cities == {CityA, CityA2, CityB}
Callers == {"c1", "c2"}

CityKey(city) == city.name \o "-" \o city.country

\* The provider's city id (currentData.id) of a coordinate pair.
ProviderId(lat, lon) == 10 * lat + lon

VARIABLES
  now,             \* Date.now()
  weatherStore,    \* storage key weather_data: cache key -> WeatherData
  timeStore,       \* storage key weather_last_fetch: cache key -> time
  pendingStore,    \* storage key weather_pending_requests: City[]
  activeRequests,  \* cache key -> index in net of the in-flight promise
  net,             \* the network round-trips started so far
  ticks,           \* clock advances so far
  gw,              \* per caller: the getWeatherData call it runs
  remote,          \* the remote item store: what listItems returns
  rc,              \* per run: the updateAllFavorites call
  tg,              \* per toggler: the toggleFavorite call and the check after it
  view,            \* what the screens computed from the remote list
  pp,              \* the processPendingRequests call
  isConnected,     \* the device has an internet connection
  storedToken,     \* storage key secure_user_token
  isAuthenticated, \* the auth provider's isAuthenticated state
  life,            \* the start-up paths and the favorites screen
  started,         \* the updateAllFavorites calls made by them
  recentStore,     \* storage key recent_city_searches: City[]
  rs               \* per caller: the addToRecentSearches call it runs

vars == <<now, weatherStore, timeStore, pendingStore, activeRequests,
          net, ticks, gw, remote, rc, tg, view, pp, isConnected,
          storedToken, isAuthenticated, life, started, recentStore, rs>>
favVars == <<remote, rc, tg, view>>
cacheVars == <<now, weatherStore, timeStore, pendingStore, ticks, gw>>
drainVars == <<pp>>
lifeVars == <<isConnected, storedToken, isAuthenticated, life, started>>
recentVars == <<recentStore, rs>>

(***************************************************************************)
(* fetchWeatherFromApi                                                     *)
(***************************************************************************)
\* The WeatherData object that round-trip n resolves to.  Field fetch is
\* the identity of the object (one object per round-trip).
WeatherData(n) ==
  [city |-> net[n].city.name, weatherId |-> ProviderId(net[n].city.lat, net[n].city.lon),
   lat |-> net[n].city.lat, lon |-> net[n].city.lon,
   country |-> net[n].city.country,
   timezone |-> 1, sunrise |-> 6, sunset |-> 18, fetch |-> n]

InFlightNever(requests, city) == FALSE

\* line 52: cityKey in activeRequests
InFlight(requests, city) == Has(requests, CityKey(city))

\* lines 49-70, the synchronous part of fetchWeatherFromApi(city) called
\* with the map requests and the round-trips trips: the call reuses the
\* in-flight request, or starts the two fetches and registers the promise.
\* promise is the promise the call awaits, owner tells that the call
\* started it.
FetchWeatherFromApi(requests, trips, city) ==
  IF InFlight(requests, city)
  THEN [activeRequests |-> requests, net |-> trips,
        promise |-> requests[CityKey(city)], owner |-> FALSE]
  ELSE [activeRequests |-> Put(requests, CityKey(city), Len(trips) + 1),
        net |-> Append(trips, [key |-> CityKey(city), city |-> city,
                               state |-> "pending"]),
        promise |-> Len(trips) + 1, owner |-> TRUE]

\* The two responses arrive: both ok and parseable, or not.
NetSettle(n) ==
  /\ n \in 1..Len(net)
  /\ net[n].state = "pending"
  /\ \E s \in {"ok", "err"} : net' = [net EXCEPT ![n].state = s]
  /\ UNCHANGED <<now, weatherStore, timeStore, pendingStore, activeRequests,
                 ticks, gw>>
  /\ UNCHANGED <<favVars, drainVars, lifeVars, recentVars>>

\* The clock advances by one expiration period.  getWeatherData reads it
\* once, at line 229, so it advances while a call is about to read it: a
\* snapshot of age CACHE_EXPIRATION is not yet expired, an older one is.
Tick ==
  /\ ticks < MaxTicks
  /\ \E p \in Callers : gw[p].pc = "time"
  /\ ticks' = ticks + 1
  /\ now' = now + CACHE_EXPIRATION
  /\ UNCHANGED <<weatherStore, timeStore, pendingStore, activeRequests, net, gw>>
  /\ UNCHANGED <<favVars, drainVars, lifeVars, recentVars>>

(***************************************************************************)
(* getWeatherData                                                          *)
(***************************************************************************)
GwIdle ==
  [pc |-> "idle", city |-> CityA, forceRefresh |-> FALSE, isOnline |-> FALSE,
   currentTime |-> 0, isCacheExpired |-> FALSE,
   weatherCache |-> EmptyMap, timeCache |-> EmptyMap, pendingRequests |-> << >>,
   promise |-> 0, owner |-> FALSE, inner |-> FALSE,
   freshData |-> Null, cachedData |-> Null, result |-> Null,
   \* history of the call
   startSnap |-> Null, startTime |-> 0, conc |-> FALSE, together |-> FALSE,
   fetchFailed |-> FALSE, netCalls |-> 0, writes |-> 0]

Active(q) == gw[q].pc \notin {"idle", "done"}

\* lines 246 and 286: the caller calls fetchWeatherFromApi(city) and awaits
\* the promise
CallFetch(p, g, inner) ==
  LET f == FetchWeatherFromApi(activeRequests, net, g.city)
  IN /\ Len(f.net) <= MaxNet
     /\ activeRequests' = f.activeRequests
     /\ net' = f.net
     /\ gw' = [gw EXCEPT ![p] =
                 [g EXCEPT !.pc = "fetch", !.promise = f.promise,
                           !.owner = f.owner, !.inner = inner,
                           !.netCalls = IF f.owner THEN @ + 1 ELSE @]]

Return(g, value) ==
  [g EXCEPT !.pc = "done", !.result = value,
            !.weatherCache = EmptyMap, !.timeCache = EmptyMap,
            !.pendingRequests = << >>]

\* timeCache[cityKey] is truthy
HasTime(m, k) == Has(m, k) /\ m[k] # 0

\* lines 224-227: the call starts and awaits isInternetAvailable()
GwCall(p, city, force) ==
  /\ gw[p].pc = "idle"
  /\ gw' = [q \in Callers |->
             IF q = p
             THEN [GwIdle EXCEPT !.pc = "net", !.city = city,
                     !.forceRefresh = force,
                     !.startSnap = Get(weatherStore, CityKey(city)),
                     !.startTime = IF HasTime(timeStore, CityKey(city))
                                   THEN timeStore[CityKey(city)] ELSE 0,
                     !.conc = \E r \in Callers \ {p} : Active(r),
                     !.together = \E r \in Callers \ {p} : gw[r].pc = "net"]
             ELSE IF Active(q)
                  THEN [gw[q] EXCEPT !.conc = TRUE,
                                     !.together = (gw[q].pc = "net")]
                  ELSE gw[q]]
  /\ UNCHANGED <<now, weatherStore, timeStore, pendingStore, activeRequests,
                 net, ticks>>
  /\ UNCHANGED <<favVars, drainVars, lifeVars, recentVars>>

\* line 227: isInternetAvailable() resolves
GwNet(p) ==
  /\ gw[p].pc = "net"
  /\ \E b \in BOOLEAN : gw' = [gw EXCEPT ![p].pc = "time", ![p].isOnline = b]
  /\ UNCHANGED <<now, weatherStore, timeStore, pendingStore, activeRequests,
                 net, ticks>>
  /\ UNCHANGED <<favVars, drainVars, lifeVars, recentVars>>

IsCacheExpiredInclusive(lastFetchTime, cityKey, currentTime, forceRefresh) ==
  \/ ~HasTime(lastFetchTime, cityKey)
  \/ currentTime - lastFetchTime[cityKey] >= CACHE_EXPIRATION
  \/ forceRefresh

\* lines 230-232
IsCacheExpired(lastFetchTime, cityKey, currentTime, forceRefresh) ==
  \/ ~HasTime(lastFetchTime, cityKey)
  \/ currentTime - lastFetchTime[cityKey] > CACHE_EXPIRATION
  \/ forceRefresh

ShouldFetchExpired(isOnline, isCacheExpired) == isCacheExpired

\* line 237
ShouldFetch(isOnline, isCacheExpired) == isOnline /\ isCacheExpired

\* lines 228-246: the last fetch times are read; online with an expired
\* cache the call clears the city's cache (forced refresh, line 242) or
\* fetches, otherwise it reads the cache
GwTime(p) ==
  /\ gw[p].pc = "time"
  /\ LET g == [gw[p] EXCEPT
                 !.currentTime = now,
                 !.isCacheExpired = IsCacheExpired(timeStore, CityKey(gw[p].city),
                                                   now, gw[p].forceRefresh)]
     IN IF ShouldFetch(g.isOnline, g.isCacheExpired)
        THEN IF g.forceRefresh
             THEN /\ gw' = [gw EXCEPT ![p] = [g EXCEPT !.pc = "clr_w"]]
                  /\ UNCHANGED <<activeRequests, net>>
             ELSE CallFetch(p, g, TRUE)
        ELSE /\ gw' = [gw EXCEPT ![p] = [g EXCEPT !.pc = "rd_w"]]
             /\ UNCHANGED <<activeRequests, net>>
  /\ UNCHANGED <<now, weatherStore, timeStore, pendingStore, ticks>>
  /\ UNCHANGED <<favVars, drainVars, lifeVars, recentVars>>

\* clearCityWeatherCache, line 316
GwClrW(p) ==
  /\ gw[p].pc = "clr_w"
  /\ gw' = [gw EXCEPT ![p].pc = "clr_t", ![p].weatherCache = weatherStore]
  /\ UNCHANGED <<now, weatherStore, timeStore, pendingStore, activeRequests,
                 net, ticks>>
  /\ UNCHANGED <<favVars, drainVars, lifeVars, recentVars>>

\* clearCityWeatherCache, lines 317-328, then line 246
GwClrT(p) ==
  /\ gw[p].pc = "clr_t"
  /\ LET k == CityKey(gw[p].city)
         g == [gw[p] EXCEPT !.timeCache = timeStore]
     IN IF Has(g.weatherCache, k)
        THEN /\ gw' = [gw EXCEPT ![p] = [g EXCEPT !.pc = "clr_sw",
                                           !.weatherCache = Del(@, k)]]
             /\ UNCHANGED <<activeRequests, net>>
        ELSE IF HasTime(g.timeCache, k)
             THEN /\ gw' = [gw EXCEPT ![p] = [g EXCEPT !.pc = "clr_st",
                                                !.timeCache = Del(@, k)]]
                  /\ UNCHANGED <<activeRequests, net>>
             ELSE CallFetch(p, g, TRUE)
  /\ UNCHANGED <<now, weatherStore, timeStore, pendingStore, ticks>>
  /\ UNCHANGED <<favVars, drainVars, lifeVars, recentVars>>

\* clearCityWeatherCache, lines 322-328, then line 246
GwClrSW(p) ==
  /\ gw[p].pc = "clr_sw"
  /\ weatherStore' = gw[p].weatherCache
  /\ LET k == CityKey(gw[p].city)
         g == [gw[p] EXCEPT !.writes = @ + 1]
     IN IF HasTime(g.timeCache, k)
        THEN /\ gw' = [gw EXCEPT ![p] = [g EXCEPT !.pc = "clr_st",
                                           !.timeCache = Del(@, k)]]
             /\ UNCHANGED <<activeRequests, net>>
        ELSE CallFetch(p, g, TRUE)
  /\ UNCHANGED <<now, timeStore, pendingStore, ticks>>
  /\ UNCHANGED <<favVars, drainVars, lifeVars, recentVars>>

\* clearCityWeatherCache, line 327, then line 246
GwClrST(p) ==
  /\ gw[p].pc = "clr_st"
  /\ timeStore' = gw[p].timeCache
  /\ CallFetch(p, [gw[p] EXCEPT !.writes = @ + 1], TRUE)
  /\ UNCHANGED <<now, weatherStore, pendingStore, ticks>>
  /\ UNCHANGED <<favVars, drainVars, lifeVars, recentVars>>

\* lines 124-135 and 246/286: the awaited request settled.  The call that
\* started it removes it from activeRequests; a failure inside the inner
\* try (line 240) falls back to the cache, outside it returns null.
GwFetch(p) ==
  /\ gw[p].pc = "fetch"
  /\ net[gw[p].promise].state # "pending"
  /\ activeRequests' = IF gw[p].owner
                       THEN Del(activeRequests, CityKey(gw[p].city))
                       ELSE activeRequests
  /\ IF net[gw[p].promise].state = "ok"
     THEN gw' = [gw EXCEPT ![p].pc = "put_w",
                           ![p].freshData = WeatherData(gw[p].promise)]
     ELSE IF gw[p].inner
          THEN gw' = [gw EXCEPT ![p].pc = "fb_w", ![p].fetchFailed = TRUE]
          ELSE gw' = [gw EXCEPT ![p] = Return([gw[p] EXCEPT !.fetchFailed = TRUE], Null)]
  /\ UNCHANGED <<now, weatherStore, timeStore, pendingStore, net, ticks>>
  /\ UNCHANGED <<favVars, drainVars, lifeVars, recentVars>>

\* lines 249-250 / 289-290
GwPutW(p) ==
  /\ gw[p].pc = "put_w"
  /\ gw' = [gw EXCEPT ![p].pc = "put_t",
              ![p].weatherCache = Put(weatherStore, CityKey(gw[p].city), gw[p].freshData)]
  /\ UNCHANGED <<now, weatherStore, timeStore, pendingStore, activeRequests,
                 net, ticks>>
  /\ UNCHANGED <<favVars, drainVars, lifeVars, recentVars>>

\* lines 252-253 / 292-293
GwPutT(p) ==
  /\ gw[p].pc = "put_t"
  /\ gw' = [gw EXCEPT ![p].pc = "put_sw",
              ![p].timeCache = Put(timeStore, CityKey(gw[p].city), gw[p].currentTime)]
  /\ UNCHANGED <<now, weatherStore, timeStore, pendingStore, activeRequests,
                 net, ticks>>
  /\ UNCHANGED <<favVars, drainVars, lifeVars, recentVars>>

\* line 255 / 295
GwPutSW(p) ==
  /\ gw[p].pc = "put_sw"
  /\ weatherStore' = gw[p].weatherCache
  /\ gw' = [gw EXCEPT ![p].pc = "put_st", ![p].writes = @ + 1]
  /\ UNCHANGED <<now, timeStore, pendingStore, activeRequests, net, ticks>>
  /\ UNCHANGED <<favVars, drainVars, lifeVars, recentVars>>

\* lines 256-258 / 296-298
GwPutST(p) ==
  /\ gw[p].pc = "put_st"
  /\ timeStore' = gw[p].timeCache
  /\ gw' = [gw EXCEPT ![p] = Return([gw[p] EXCEPT !.writes = @ + 1], gw[p].freshData)]
  /\ UNCHANGED <<now, weatherStore, pendingStore, activeRequests, net, ticks>>
  /\ UNCHANGED <<favVars, drainVars, lifeVars, recentVars>>

\* lines 259-267 and 302-305: after a failed fetch the cache is read again
GwFbW(p) ==
  /\ gw[p].pc = "fb_w"
  /\ gw' = [gw EXCEPT ![p] = Return(gw[p], Get(weatherStore, CityKey(gw[p].city)))]
  /\ UNCHANGED <<now, weatherStore, timeStore, pendingStore, activeRequests,
                 net, ticks>>
  /\ UNCHANGED <<favVars, drainVars, lifeVars, recentVars>>

\* lines 273-301: offline, or the cache has not expired
GwRdW(p) ==
  /\ gw[p].pc = "rd_w"
  /\ LET g == [gw[p] EXCEPT !.cachedData = Get(weatherStore, CityKey(gw[p].city))]
     IN IF g.cachedData = Null /\ ~g.isOnline
        THEN /\ gw' = [gw EXCEPT ![p] = [g EXCEPT !.pc = "pq_r"]]
             /\ UNCHANGED <<activeRequests, net>>
        ELSE IF g.cachedData = Null /\ g.isOnline
             THEN CallFetch(p, g, FALSE)
             ELSE /\ gw' = [gw EXCEPT ![p] = Return(g, g.cachedData)]
                  /\ UNCHANGED <<activeRequests, net>>
  /\ UNCHANGED <<now, weatherStore, timeStore, pendingStore, ticks>>
  /\ UNCHANGED <<favVars, drainVars, lifeVars, recentVars>>

CityExistsNever(pendingRequests, city) == FALSE

\* storePendingRequest, lines 146-148
CityExists(pendingRequests, city) ==
  \E i \in 1..Len(pendingRequests) :
    pendingRequests[i].name = city.name /\ pendingRequests[i].country = city.country

\* storePendingRequest, lines 143-151
GwPqR(p) ==
  /\ gw[p].pc = "pq_r"
  /\ IF ~CityExists(pendingStore, gw[p].city)
     THEN gw' = [gw EXCEPT ![p].pc = "pq_s",
                           ![p].pendingRequests = Append(pendingStore, gw[p].city)]
     ELSE gw' = [gw EXCEPT ![p] = Return(gw[p], Null)]
  /\ UNCHANGED <<now, weatherStore, timeStore, pendingStore, activeRequests,
                 net, ticks>>
  /\ UNCHANGED <<favVars, drainVars, lifeVars, recentVars>>

\* storePendingRequest, line 152, then line 280
GwPqS(p) ==
  /\ gw[p].pc = "pq_s"
  /\ pendingStore' = gw[p].pendingRequests
  /\ gw' = [gw EXCEPT ![p] = Return([gw[p] EXCEPT !.writes = @ + 1], Null)]
  /\ UNCHANGED <<now, weatherStore, timeStore, activeRequests, net, ticks>>
  /\ UNCHANGED <<favVars, drainVars, lifeVars, recentVars>>

(***************************************************************************)
(* The remote item store and the favorite predicates                       *)
(***************************************************************************)
MaxRecords == 2   \* length of the initial remote lists built from RecordShapes

\* a field that a JSON object does not have (undefined)
Absent == -1

\* JavaScript truthiness of an optional number
Truthy(v) == v # Absent /\ v # 0

\* String.prototype.toLowerCase on the names of the model
ToLowerCase(s) ==
  CASE s = "Paris" -> "paris"
    [] s = "PARIS" -> "paris"
    [] s = "Rome" -> "rome"
    [] s = "Roma" -> "roma"
    [] OTHER -> s

\* A metadata string: JSON text of an object with these fields (country ""
\* when the object has none), or text that JSON.parse rejects.
Metadata(deleted, weatherId, lat, lon, country, timezone, sunrise, sunset) ==
  [json |-> "obj", deleted |-> deleted, weatherId |-> weatherId,
   lat |-> lat, lon |-> lon, country |-> country,
   timezone |-> timezone, sunrise |-> sunrise, sunset |-> sunset]
BadJson ==
  [json |-> "bad", deleted |-> FALSE, weatherId |-> Absent,
   lat |-> Absent, lon |-> Absent, country |-> "",
   timezone |-> Absent, sunrise |-> Absent, sunset |-> Absent]

\* JSON.parse(item.metadata) returns an object (does not throw)
Parses(metadata) == metadata.json = "obj"

\* content of a live favorite: JSON.stringify({temperature, conditions, description})
Summary == "{temperature,conditions,description}"

Max(S) == CHOOSE x \in S : \A y \in S : y <= x

\* The store stamps updatedAt on every write, later than every earlier write.
NextStamp(items) ==
  IF items = << >> THEN 1 ELSE 1 + Max({items[i].updatedAt : i \in 1..Len(items)})

NewId(items) == "r" \o ToString(Len(items) + 1)

\* upsertItem(input): with the id of a stored item an update in place,
\* otherwise a new item
UpsertItem(items, input) ==
  IF input.id # "" /\ \E i \in 1..Len(items) : items[i].id = input.id
  THEN [i \in 1..Len(items) |->
          IF items[i].id = input.id
          THEN [id |-> input.id, name |-> input.name, content |-> input.content,
                metadata |-> input.metadata, updatedAt |-> NextStamp(items)]
          ELSE items[i]]
  ELSE Append(items,
              [id |-> IF input.id # "" THEN input.id ELSE NewId(items),
               name |-> input.name, content |-> input.content,
               metadata |-> input.metadata, updatedAt |-> NextStamp(items)])

MutationInputNoId(weatherData) ==
  [id |-> "", name |-> weatherData.city, content |-> Summary,
   metadata |-> Metadata(FALSE, weatherData.weatherId, weatherData.lat,
                         weatherData.lon, weatherData.country,
                         weatherData.timezone, weatherData.sunrise,
                         weatherData.sunset)]

\* saveFavoriteCity, lines 102-140: the input of the mutation
MutationInput(weatherData) ==
  [id |-> IF weatherData.id # "" THEN weatherData.id ELSE "",
   name |-> weatherData.city, content |-> Summary,
   metadata |-> Metadata(FALSE, weatherData.weatherId, weatherData.lat,
                         weatherData.lon, weatherData.country,
                         weatherData.timezone, weatherData.sunrise,
                         weatherData.sunset)]

\* checkIfCityInFavorites, lines 192-216: the predicate of items.some
ItemIsFavorite(item, cityName, weatherId) ==
  /\ ToLowerCase(item.name) = ToLowerCase(cityName)
  /\ IF Parses(item.metadata)
     THEN /\ ~(item.content = "" \/ item.metadata.deleted)
          /\ ~(/\ Truthy(weatherId) /\ Truthy(item.metadata.weatherId)
               /\ item.metadata.weatherId # weatherId)
     ELSE TRUE

\* checkIfCityInFavorites, lines 189-219
CheckIfCityInFavorites(items, cityName, weatherId) ==
  \E i \in 1..Len(items) : ItemIsFavorite(items[i], cityName, weatherId)

ToggleMatchesByName(item, weatherData) ==
  /\ ~(Parses(item.metadata) /\ (item.content = "" \/ item.metadata.deleted))
  /\ ToLowerCase(item.name) = ToLowerCase(weatherData.city)

\* toggleFavorite, lines 79-105: the predicate of items.filter
ToggleMatches(item, weatherData) ==
  LET nameMatches == ToLowerCase(item.name) = ToLowerCase(weatherData.city)
      weatherIdMatches ==
        /\ Parses(item.metadata)
        /\ Truthy(weatherData.weatherId) /\ Truthy(item.metadata.weatherId)
        /\ item.metadata.weatherId = weatherData.weatherId
  IN IF Parses(item.metadata) /\ (item.content = "" \/ item.metadata.deleted)
     THEN FALSE
     ELSE nameMatches \/ weatherIdMatches

ValidItemAlways(item) == TRUE
\* updateAllFavorites, lines 239-253: the predicate of allItems.filter
ValidItem(item) ==
  IF Parses(item.metadata)
  THEN ~(item.content = "" \/ item.metadata.deleted)
  ELSE FALSE

\* updateAllFavorites, lines 260-265 and 273-274: the key of an item
DedupeKey(item) ==
  IF Parses(item.metadata)
  THEN ToLowerCase(item.name) \o "-"
         \o ToString(IF Truthy(item.metadata.weatherId)
                     THEN item.metadata.weatherId ELSE 0)
  ELSE ToLowerCase(item.name)

Older(item, kept) == item.updatedAt < kept.updatedAt

\* lines 268 and 277: new Date(item.updatedAt) > new Date(kept.updatedAt)
Newer(item, kept) == item.updatedAt > kept.updatedAt

\* updateAllFavorites, lines 257-281 (and FavoritesScreen, lines 103-116):
\* the Map after the first n items, as the sequence of its entries in
\* insertion order; setting a present key keeps the entry's position
RECURSIVE CityMap(_, _)
CityMap(items, n) ==
  IF n = 0 THEN << >>
  ELSE LET m == CityMap(items, n - 1)
           key == DedupeKey(items[n])
           at == {j \in 1..Len(m) : m[j].key = key}
       IN IF at = {}
          THEN Append(m, [key |-> key, item |-> items[n]])
          ELSE LET j == CHOOSE j \in at : TRUE
               IN IF Newer(items[n], m[j].item)
                  THEN [m EXCEPT ![j].item = items[n]]
                  ELSE m

\* Array.from(cityMap.values())
MapValues(m) == [j \in 1..Len(m) |-> m[j].item]

\* updateAllFavorites, lines 236-284: the favorites to update
Candidates(allItems) ==
  LET validItems == SelectSeq(allItems, ValidItem)
  IN MapValues(CityMap(validItems, Len(validItems)))

\* FavoritesScreen.processFavorites, lines 88-99: the predicate of filter
ShownItem(item) ==
  /\ Parses(item.metadata)
  /\ ~(item.content = "" \/ item.metadata.deleted)

\* FavoritesScreen.processFavorites
ProcessFavorites(items) ==
  LET validItems == SelectSeq(items, ShownItem)
  IN MapValues(CityMap(validItems, Len(validItems)))

\* convertToFavoriteData
ConvertToFavoriteData(weather) ==
  LET geo == weather.lat # Absent /\ weather.lon # Absent
  IN [id |-> "", city |-> weather.city, weatherId |-> weather.weatherId,
      lat |-> IF geo THEN weather.lat ELSE Absent,
      lon |-> IF geo THEN weather.lon ELSE Absent,
      country |-> IF geo
                  THEN IF weather.country # "" THEN weather.country ELSE "Unknown"
                  ELSE "",
      timezone |-> weather.timezone, sunrise |-> weather.sunrise,
      sunset |-> weather.sunset]

\* toggleFavorite, lines 113-123: the input that marks item as deleted
DeletedInput(item) ==
  [id |-> item.id, name |-> item.name, content |-> "",
   metadata |-> Metadata(TRUE, Absent, Absent, Absent, "", Absent, Absent, Absent)]

(***************************************************************************)
(* updateAllFavorites                                                      *)
(***************************************************************************)
Runs == {"u1"}
Togglers == {"t1", "t2"}

NoCity == [name |-> "", country |-> "", lat |-> Absent, lon |-> Absent]
NoWeather ==
  [city |-> "", weatherId |-> Absent, lat |-> Absent, lon |-> Absent,
   country |-> "", timezone |-> Absent, sunrise |-> Absent, sunset |-> Absent,
   fetch |-> 0]

IdleRun ==
  [pc |-> "idle", allItems |-> << >>, favorites |-> << >>, i |-> 0,
   tasks |-> << >>, successCount |-> 0, result |-> Absent,
   \* history of the run: the tasks of the batches that were joined
   settled |-> << >>]

\* lines 304-313: lat, lon and country of the favorite's metadata
MetadataGeo(favorite) ==
  LET metadata == favorite.metadata
  IN [lat |-> IF Parses(metadata) /\ Truthy(metadata.lat) THEN metadata.lat ELSE Absent,
      lon |-> IF Parses(metadata) /\ Truthy(metadata.lon) THEN metadata.lon ELSE Absent,
      country |-> IF Parses(metadata) THEN metadata.country ELSE ""]

\* line 316: !lat || !lon
MissingGeo(geo) == ~Truthy(geo.lat) \/ ~Truthy(geo.lon)

\* lines 334-339
CityOf(favorite, geo) ==
  [name |-> favorite.name, lat |-> geo.lat, lon |-> geo.lon,
   country |-> IF geo.country # "" THEN geo.country ELSE "Unknown"]

\* The per-favorite task of a batch.  pc is the await the task is at:
\* "geo" (line 318), "fetch" (line 343), "token" and "mutate"
\* (saveFavoriteCity, lines 145 and 149), or the value it settled with.
NewTask(favorite) ==
  [favorite |-> favorite, pc |-> "geo", city |-> NoCity, promise |-> 0,
   owner |-> FALSE, weatherData |-> NoWeather,
   \* history of the task
   searched |-> FALSE, fetched |-> "no", saved |-> "no"]

\* lines 297-343: the tasks of a batch start in order; each runs to its
\* first await.  The state after the first n tasks started.
RECURSIVE Launch(_, _, _, _)
Launch(batch, n, requests, trips) ==
  IF n = 0
  THEN [tasks |-> << >>, activeRequests |-> requests, net |-> trips]
  ELSE LET st == Launch(batch, n - 1, requests, trips)
           geo == MetadataGeo(batch[n])
       IN IF MissingGeo(geo)
          THEN [st EXCEPT !.tasks = Append(@, [NewTask(batch[n]) EXCEPT
                                                !.searched = TRUE])]
          ELSE LET city == CityOf(batch[n], geo)
                   f == FetchWeatherFromApi(st.activeRequests, st.net, city)
               IN [tasks |-> Append(st.tasks,
                                    [NewTask(batch[n]) EXCEPT
                                       !.pc = "fetch", !.city = city,
                                       !.promise = f.promise, !.owner = f.owner]),
                   activeRequests |-> f.activeRequests, net |-> f.net]

\* line 297: favorites.slice(i, i + batchSize)
Batch(favorites, i) ==
  SubSeq(favorites, i + 1, IF i + batchSize < Len(favorites)
                           THEN i + batchSize ELSE Len(favorites))

\* the run r starts the batch at index i
StartBatch(r, run, i) ==
  LET st == Launch(Batch(run.favorites, i), Len(Batch(run.favorites, i)),
                   activeRequests, net)
  IN /\ Len(st.net) <= MaxNet
     /\ activeRequests' = st.activeRequests
     /\ net' = st.net
     /\ rc' = [rc EXCEPT ![r] = [run EXCEPT !.pc = "batch", !.i = i,
                                            !.tasks = st.tasks]]

\* lines 226-234: the call starts and awaits the list query
RcCall(r) ==
  /\ rc[r].pc = "idle"
  /\ rc' = [rc EXCEPT ![r].pc = "list"]
  /\ UNCHANGED <<remote, tg, view, activeRequests, net>>
  /\ UNCHANGED <<cacheVars, drainVars, lifeVars, recentVars>>

\* lines 231-300 and 386-389: the list query settles
RcList(r) ==
  /\ rc[r].pc = "list"
  /\ \E ok \in BOOLEAN :
       IF ~ok
       THEN /\ rc' = [rc EXCEPT ![r].pc = "done", ![r].result = 0]
            /\ UNCHANGED <<activeRequests, net>>
       ELSE LET run == [rc[r] EXCEPT !.allItems = remote,
                                     !.favorites = Candidates(remote)]
            IN IF Len(run.favorites) = 0
               THEN /\ rc' = [rc EXCEPT ![r] = [run EXCEPT !.pc = "done", !.result = 0]]
                    /\ UNCHANGED <<activeRequests, net>>
               ELSE StartBatch(r, run, 0)
  /\ UNCHANGED <<remote, tg, view>>
  /\ UNCHANGED <<cacheVars, drainVars, lifeVars, recentVars>>

\* what searchCities(name) can return first
GeoResults(name) == {c \in Cities : ToLowerCase(c.name) = ToLowerCase(name)}

SetTask(r, j, task) == rc' = [rc EXCEPT ![r].tasks[j] = task]

\* getGeoDataForCity, and lines 318-343: the geo search settles
RcGeo(r, j) ==
  /\ rc[r].pc = "batch"
  /\ j \in 1..Len(rc[r].tasks)
  /\ rc[r].tasks[j].pc = "geo"
  /\ \/ /\ SetTask(r, j, [rc[r].tasks[j] EXCEPT !.pc = "false"])
        /\ UNCHANGED <<activeRequests, net>>
     \/ \E found \in GeoResults(rc[r].tasks[j].favorite.name) :
          LET city == CityOf(rc[r].tasks[j].favorite, found)
              f == FetchWeatherFromApi(activeRequests, net, city)
          IN /\ Len(f.net) <= MaxNet
             /\ activeRequests' = f.activeRequests
             /\ net' = f.net
             /\ SetTask(r, j, [rc[r].tasks[j] EXCEPT
                                 !.pc = "fetch", !.city = city,
                                 !.promise = f.promise, !.owner = f.owner])
  /\ UNCHANGED <<remote, tg, view>>
  /\ UNCHANGED <<cacheVars, drainVars, lifeVars, recentVars>>

\* fetchWeatherFromApi lines 124-135 and lines 343-363: the request settled
RcFetch(r, j) ==
  /\ rc[r].pc = "batch"
  /\ j \in 1..Len(rc[r].tasks)
  /\ rc[r].tasks[j].pc = "fetch"
  /\ net[rc[r].tasks[j].promise].state # "pending"
  /\ activeRequests' = IF rc[r].tasks[j].owner
                       THEN Del(activeRequests, CityKey(rc[r].tasks[j].city))
                       ELSE activeRequests
  /\ IF net[rc[r].tasks[j].promise].state = "ok"
     THEN SetTask(r, j, [rc[r].tasks[j] EXCEPT
                           !.pc = "token", !.fetched = "ok",
                           !.weatherData = WeatherData(rc[r].tasks[j].promise)])
     ELSE SetTask(r, j, [rc[r].tasks[j] EXCEPT !.pc = "false", !.fetched = "err"])
  /\ UNCHANGED <<remote, tg, view, net>>
  /\ UNCHANGED <<cacheVars, drainVars, lifeVars, recentVars>>

\* saveFavoriteCity, line 145: the token is read
RcToken(r, j) ==
  /\ rc[r].pc = "batch"
  /\ j \in 1..Len(rc[r].tasks)
  /\ rc[r].tasks[j].pc = "token"
  /\ SetTask(r, j, [rc[r].tasks[j] EXCEPT !.pc = "mutate"])
  /\ UNCHANGED <<remote, tg, view, activeRequests, net>>
  /\ UNCHANGED <<cacheVars, drainVars, lifeVars, recentVars>>

\* lines 346-359
FavoriteData(favorite, weatherData) ==
  [id |-> favorite.id, city |-> weatherData.city,
   weatherId |-> weatherData.weatherId, lat |-> weatherData.lat,
   lon |-> weatherData.lon, country |-> weatherData.country,
   \* favoriteData has no timezone, sunrise or sunset: undefined
   timezone |-> Absent, sunrise |-> Absent, sunset |-> Absent]

\* saveFavoriteCity, lines 149-176 and lines 363-369: the mutation settles
RcMutate(r, j) ==
  /\ rc[r].pc = "batch"
  /\ j \in 1..Len(rc[r].tasks)
  /\ rc[r].tasks[j].pc = "mutate"
  /\ \/ /\ remote' = UpsertItem(remote, MutationInput(
                        FavoriteData(rc[r].tasks[j].favorite,
                                     rc[r].tasks[j].weatherData)))
        /\ SetTask(r, j, [rc[r].tasks[j] EXCEPT !.pc = "true", !.saved = "ok"])
     \/ /\ remote' = remote
        /\ SetTask(r, j, [rc[r].tasks[j] EXCEPT !.pc = "false", !.saved = "err"])
  /\ UNCHANGED <<tg, view, activeRequests, net>>
  /\ UNCHANGED <<cacheVars, drainVars, lifeVars, recentVars>>

SettledOrSaving(task) == task.pc \in {"true", "false", "token", "mutate"}

\* line 300: the promise of the task settled (Promise.allSettled)
Settled(task) == task.pc \in {"true", "false"}

CountSettled(tasks) ==
  Cardinality({j \in 1..Len(tasks) : tasks[j].pc \in {"true", "false"}})

\* lines 374-376
CountSuccess(tasks) ==
  Cardinality({j \in 1..Len(tasks) : tasks[j].pc = "true"})

\* lines 300 and 374-385: every task of the batch settled
RcJoin(r) ==
  /\ rc[r].pc = "batch"
  /\ \A j \in 1..Len(rc[r].tasks) : Settled(rc[r].tasks[j])
  /\ LET run == [rc[r] EXCEPT !.successCount = @ + CountSuccess(rc[r].tasks),
                              !.settled = @ \o rc[r].tasks,
                              !.tasks = << >>]
     IN IF run.i + batchSize < Len(run.favorites)
        THEN rc' = [rc EXCEPT ![r] = [run EXCEPT !.pc = "delay"]]
        ELSE rc' = [rc EXCEPT ![r] = [run EXCEPT !.pc = "done",
                                                 !.result = run.successCount]]
  /\ UNCHANGED <<remote, tg, view, activeRequests, net>>
  /\ UNCHANGED <<cacheVars, drainVars, lifeVars, recentVars>>

\* lines 296 and 380: the delay between two batches elapsed
RcDelay(r) ==
  /\ rc[r].pc = "delay"
  /\ StartBatch(r, rc[r], rc[r].i + batchSize)
  /\ UNCHANGED <<remote, tg, view>>
  /\ UNCHANGED <<cacheVars, drainVars, lifeVars, recentVars>>

(***************************************************************************)
(* toggleFavorite, and an isCityInFavorites call after it                  *)
(***************************************************************************)
IdleToggle ==
  [pc |-> "idle", weatherData |-> NoWeather, isAlreadyFavorite |-> FALSE,
   matchingItems |-> << >>, unsettled |-> {}, removedCount |-> 0,
   result |-> FALSE, after |-> FALSE,
   \* history of the call: the list query answered with items
   listed |-> FALSE, items |-> << >>]

\* lines 59-64: the call starts and awaits isCityInFavorites
TgCall(t, weatherData) ==
  /\ tg[t].pc = "idle"
  /\ tg' = [tg EXCEPT ![t] = [IdleToggle EXCEPT !.pc = "check",
                                                !.weatherData = weatherData]]
  /\ UNCHANGED <<remote, rc, view, activeRequests, net>>
  /\ UNCHANGED <<cacheVars, drainVars, lifeVars, recentVars>>

\* isCityInFavorites, and lines 64-73 and 144-152: a failed list query
\* counts as "not a favorite"
TgCheck(t) ==
  /\ tg[t].pc = "check"
  /\ \E ok \in BOOLEAN :
       LET fav == ok /\ CheckIfCityInFavorites(remote, tg[t].weatherData.city,
                                               tg[t].weatherData.weatherId)
       IN tg' = [tg EXCEPT ![t].isAlreadyFavorite = fav,
                           ![t].pc = IF fav THEN "list" ELSE "token"]
  /\ UNCHANGED <<remote, rc, view, activeRequests, net>>
  /\ UNCHANGED <<cacheVars, drainVars, lifeVars, recentVars>>

\* lines 70-143 and 156-175: the list query settles
TgList(t) ==
  /\ tg[t].pc = "list"
  /\ \E ok \in BOOLEAN :
       LET Matches(item) == ToggleMatches(item, tg[t].weatherData)
           matchingItems == SelectSeq(remote, Matches)
       IN IF ok /\ Len(matchingItems) > 0
          THEN tg' = [tg EXCEPT ![t].pc = "remove",
                                ![t].matchingItems = matchingItems,
                                ![t].unsettled = 1..Len(matchingItems),
                                ![t].listed = TRUE, ![t].items = remote]
          ELSE tg' = [tg EXCEPT ![t].pc = "done", ![t].result = FALSE,
                                ![t].listed = ok,
                                ![t].items = IF ok THEN remote ELSE << >>]
  /\ UNCHANGED <<remote, rc, view, activeRequests, net>>
  /\ UNCHANGED <<cacheVars, drainVars, lifeVars, recentVars>>

\* lines 111-136: the mutation of the k-th matching item settles
TgRemove(t, k) ==
  /\ tg[t].pc = "remove"
  /\ k \in tg[t].unsettled
  /\ \/ /\ remote' = UpsertItem(remote, DeletedInput(tg[t].matchingItems[k]))
        /\ tg' = [tg EXCEPT ![t].unsettled = @ \ {k}, ![t].removedCount = @ + 1]
     \/ /\ remote' = remote
        /\ tg' = [tg EXCEPT ![t].unsettled = @ \ {k}]
  /\ UNCHANGED <<rc, view, activeRequests, net>>
  /\ UNCHANGED <<cacheVars, drainVars, lifeVars, recentVars>>

\* line 139
Removed(toggle) == toggle.removedCount > 0

\* lines 111 and 138-139: every mutation settled
TgJoin(t) ==
  /\ tg[t].pc = "remove"
  /\ tg[t].unsettled = {}
  /\ tg' = [tg EXCEPT ![t].pc = "done", ![t].result = Removed(tg[t])]
  /\ UNCHANGED <<remote, rc, view, activeRequests, net>>
  /\ UNCHANGED <<cacheVars, drainVars, lifeVars, recentVars>>

\* saveFavoriteCity, line 145: the token is read
TgToken(t) ==
  /\ tg[t].pc = "token"
  /\ tg' = [tg EXCEPT ![t].pc = "save"]
  /\ UNCHANGED <<remote, rc, view, activeRequests, net>>
  /\ UNCHANGED <<cacheVars, drainVars, lifeVars, recentVars>>

\* saveFavoriteCity, lines 149-176 and lines 152-175: the mutation settles
TgSave(t) ==
  /\ tg[t].pc = "save"
  /\ \/ /\ remote' = UpsertItem(remote, MutationInput(
                        ConvertToFavoriteData(tg[t].weatherData)))
        /\ tg' = [tg EXCEPT ![t].pc = "done", ![t].result = TRUE]
     \/ /\ remote' = remote
        /\ tg' = [tg EXCEPT ![t].pc = "done", ![t].result = FALSE]
  /\ UNCHANGED <<rc, view, activeRequests, net>>
  /\ UNCHANGED <<cacheVars, drainVars, lifeVars, recentVars>>

\* isCityInFavorites called right after the toggle returned
TgAfter(t) ==
  /\ tg[t].pc = "done"
  /\ \E ok \in BOOLEAN :
       tg' = [tg EXCEPT ![t].pc = "checked",
                ![t].after = ok /\ CheckIfCityInFavorites(
                                     remote, tg[t].weatherData.city,
                                     tg[t].weatherData.weatherId)]
  /\ UNCHANGED <<remote, rc, view, activeRequests, net>>
  /\ UNCHANGED <<cacheVars, drainVars, lifeVars, recentVars>>

(***************************************************************************)
(* The screens: the favorites list and the favorite marker                 *)
(***************************************************************************)
NoView ==
  [loaded |-> FALSE, items |-> << >>, favorites |-> << >>,
   checked |-> FALSE, checkedItems |-> << >>, cityName |-> "",
   weatherId |-> Absent, isFavorite |-> FALSE]

\* FavoritesScreen.fetchFavorites, lines 143-151: the list is loaded
FsFetchFavorites ==
  /\ ~view.loaded
  /\ view' = [view EXCEPT !.loaded = TRUE, !.items = remote,
                          !.favorites = ProcessFavorites(remote)]
  /\ UNCHANGED <<remote, rc, tg, activeRequests, net>>
  /\ UNCHANGED <<cacheVars, drainVars, lifeVars, recentVars>>

\* HomeScreen line 178: isCityInFavorites(city.name, weatherData.weatherId)
HsCheckFavorite(cityName, weatherId) ==
  /\ ~view.checked
  /\ view' = [view EXCEPT !.checked = TRUE, !.checkedItems = remote,
                          !.cityName = cityName, !.weatherId = weatherId,
                          !.isFavorite = CheckIfCityInFavorites(remote, cityName,
                                                                weatherId)]
  /\ UNCHANGED <<remote, rc, tg, activeRequests, net>>
  /\ UNCHANGED <<cacheVars, drainVars, lifeVars, recentVars>>

(***************************************************************************)
(* processPendingRequests                                                  *)
(***************************************************************************)
MaxQueue == 4   \* length of the pending queue that is drained

\* line 178
drainBatchSize == 3

CityC == [name |-> "Oslo", country |-> "NO", lat |-> 4, lon |-> 4]
CityD == [name |-> "Lima", country |-> "PE", lat |-> 5, lon |-> 5]
CityE == [name |-> "Kyiv", country |-> "UA", lat |-> 6, lon |-> 6]

\* the cities that earlier offline calls queued, one per (name, country)
QueuedCities == <<CityA, CityB, CityC, CityD, CityE>>

IdleDrain ==
  [pc |-> "idle", isOnline |-> FALSE, pendingRequests |-> << >>, i |-> 0,
   tasks |-> << >>,
   \* history of the call: the tasks of the batches that were joined
   settled |-> << >>]

DrainIdle == pp = IdleDrain

\* The per-city task of a batch.  pc is the await the task is at: "fetch"
\* (line 185), "rd_w" (189), "rd_t" (192), "st_w" (195), "st_t" (196), or
\* "end".
DrainTask(city, promise, owner) ==
  [city |-> city, pc |-> "fetch", promise |-> promise, owner |-> owner,
   data |-> Null, weatherCache |-> EmptyMap, timeCache |-> EmptyMap,
   \* history of the task
   fetched |-> "no", stored |-> FALSE]

\* lines 183-185: the tasks of a batch start in order; each calls
\* fetchWeatherFromApi and awaits it.  The state after the first n tasks.
RECURSIVE DrainLaunch(_, _, _, _)
DrainLaunch(batch, n, requests, trips) ==
  IF n = 0
  THEN [tasks |-> << >>, activeRequests |-> requests, net |-> trips]
  ELSE LET st == DrainLaunch(batch, n - 1, requests, trips)
           f == FetchWeatherFromApi(st.activeRequests, st.net, batch[n])
       IN [tasks |-> Append(st.tasks, DrainTask(batch[n], f.promise, f.owner)),
           activeRequests |-> f.activeRequests, net |-> f.net]

\* line 180: pendingRequests.slice(i, i + batchSize)
DrainBatch(pendingRequests, i) ==
  SubSeq(pendingRequests, i + 1,
         IF i + drainBatchSize < Len(pendingRequests)
         THEN i + drainBatchSize ELSE Len(pendingRequests))

MoreBatchesNever(i, n) == FALSE

\* lines 179 and 205: another batch follows the one at index i
MoreBatches(i, n) == i + drainBatchSize < n

\* the call starts the batch at index i
StartDrainBatch(call, i) ==
  LET batch == DrainBatch(call.pendingRequests, i)
      st == DrainLaunch(batch, Len(batch), activeRequests, net)
  IN /\ Len(st.net) <= MaxNet
     /\ activeRequests' = st.activeRequests
     /\ net' = st.net
     /\ pp' = [call EXCEPT !.pc = "batch", !.i = i, !.tasks = st.tasks]

\* lines 163-165: the call starts and awaits isInternetAvailable()
PpCall ==
  /\ pp.pc = "idle"
  /\ pp' = [pp EXCEPT !.pc = "net"]
  /\ UNCHANGED <<weatherStore, timeStore, pendingStore, activeRequests, net>>
  /\ UNCHANGED <<now, ticks, gw, favVars, lifeVars, recentVars>>

\* lines 165-170: offline the call returns, online it reads the queue
PpNet ==
  /\ pp.pc = "net"
  /\ \E b \in BOOLEAN :
       pp' = [pp EXCEPT !.isOnline = b, !.pc = IF b THEN "queue" ELSE "done"]
  /\ UNCHANGED <<weatherStore, timeStore, pendingStore, activeRequests, net>>
  /\ UNCHANGED <<now, ticks, gw, favVars, lifeVars, recentVars>>

\* lines 170-185: the queue is read; empty, the call returns
PpQueue ==
  /\ pp.pc = "queue"
  /\ IF Len(pendingStore) = 0
     THEN /\ pp' = [pp EXCEPT !.pc = "done"]
          /\ UNCHANGED <<activeRequests, net>>
     ELSE StartDrainBatch([pp EXCEPT !.pendingRequests = pendingStore], 0)
  /\ UNCHANGED <<weatherStore, timeStore, pendingStore>>
  /\ UNCHANGED <<now, ticks, gw, favVars, lifeVars, recentVars>>

SetDrainTask(j, task) == pp' = [pp EXCEPT !.tasks[j] = task]

\* fetchWeatherFromApi lines 124-135 and lines 185-201: the request
\* settled; a failed one ends the task (catch, line 199)
PpFetch(j) ==
  /\ pp.pc = "batch"
  /\ j \in 1..Len(pp.tasks)
  /\ pp.tasks[j].pc = "fetch"
  /\ net[pp.tasks[j].promise].state # "pending"
  /\ activeRequests' = IF pp.tasks[j].owner
                       THEN Del(activeRequests, CityKey(pp.tasks[j].city))
                       ELSE activeRequests
  /\ IF net[pp.tasks[j].promise].state = "ok"
     THEN SetDrainTask(j, [pp.tasks[j] EXCEPT
                             !.pc = "rd_w", !.fetched = "ok",
                             !.data = WeatherData(pp.tasks[j].promise)])
     ELSE SetDrainTask(j, [pp.tasks[j] EXCEPT !.pc = "end", !.fetched = "err"])
  /\ UNCHANGED <<weatherStore, timeStore, pendingStore, net>>
  /\ UNCHANGED <<now, ticks, gw, favVars, lifeVars, recentVars>>

\* lines 189-190: the weather cache is read and the snapshot put in it
PpRdW(j) ==
  /\ pp.pc = "batch"
  /\ j \in 1..Len(pp.tasks)
  /\ pp.tasks[j].pc = "rd_w"
  /\ SetDrainTask(j, [pp.tasks[j] EXCEPT
                        !.pc = "rd_t",
                        !.weatherCache = Put(weatherStore, CityKey(pp.tasks[j].city),
                                             pp.tasks[j].data)])
  /\ UNCHANGED <<weatherStore, timeStore, pendingStore, activeRequests, net>>
  /\ UNCHANGED <<now, ticks, gw, favVars, lifeVars, recentVars>>

\* lines 192-193: the fetch times are read and Date.now() put in them
PpRdT(j) ==
  /\ pp.pc = "batch"
  /\ j \in 1..Len(pp.tasks)
  /\ pp.tasks[j].pc = "rd_t"
  /\ SetDrainTask(j, [pp.tasks[j] EXCEPT
                        !.pc = "st_w",
                        !.timeCache = Put(timeStore, CityKey(pp.tasks[j].city), now)])
  /\ UNCHANGED <<weatherStore, timeStore, pendingStore, activeRequests, net>>
  /\ UNCHANGED <<now, ticks, gw, favVars, lifeVars, recentVars>>

\* line 195: the weather cache is stored
PpStW(j) ==
  /\ pp.pc = "batch"
  /\ j \in 1..Len(pp.tasks)
  /\ pp.tasks[j].pc = "st_w"
  /\ weatherStore' = pp.tasks[j].weatherCache
  /\ SetDrainTask(j, [pp.tasks[j] EXCEPT !.pc = "st_t"])
  /\ UNCHANGED <<timeStore, pendingStore, activeRequests, net>>
  /\ UNCHANGED <<now, ticks, gw, favVars, lifeVars, recentVars>>

\* lines 196-198: the fetch times are stored and the task ends
PpStT(j) ==
  /\ pp.pc = "batch"
  /\ j \in 1..Len(pp.tasks)
  /\ pp.tasks[j].pc = "st_t"
  /\ timeStore' = pp.tasks[j].timeCache
  /\ SetDrainTask(j, [pp.tasks[j] EXCEPT !.pc = "end", !.stored = TRUE])
  /\ UNCHANGED <<weatherStore, pendingStore, activeRequests, net>>
  /\ UNCHANGED <<now, ticks, gw, favVars, lifeVars, recentVars>>

\* lines 183 and 198-201: the promise of the task settled (Promise.all)
Ended(task) == task.pc = "end"

\* lines 183 and 204-211: every task of the batch ended
PpJoin ==
  /\ pp.pc = "batch"
  /\ \A j \in 1..Len(pp.tasks) : Ended(pp.tasks[j])
  /\ pp' = [pp EXCEPT !.settled = @ \o pp.tasks, !.tasks = << >>,
                      !.pc = IF MoreBatches(pp.i, Len(pp.pendingRequests))
                             THEN "delay" ELSE "clear"]
  /\ UNCHANGED <<weatherStore, timeStore, pendingStore, activeRequests, net>>
  /\ UNCHANGED <<now, ticks, gw, favVars, lifeVars, recentVars>>

\* lines 179 and 206: the delay between two batches elapsed
PpDelay ==
  /\ pp.pc = "delay"
  /\ StartDrainBatch(pp, pp.i + drainBatchSize)
  /\ UNCHANGED <<weatherStore, timeStore, pendingStore>>
  /\ UNCHANGED <<now, ticks, gw, favVars, lifeVars, recentVars>>

\* lines 211-212: removeData(PENDING_REQUESTS_KEY)
PpClear ==
  /\ pp.pc = "clear"
  /\ pendingStore' = << >>
  /\ pp' = [pp EXCEPT !.pc = "done"]
  /\ UNCHANGED <<weatherStore, timeStore, activeRequests, net>>
  /\ UNCHANGED <<now, ticks, gw, favVars, lifeVars, recentVars>>

(***************************************************************************)
(* The lifecycle triggers of updateAllFavorites: initializeApp and the     *)
(* auth provider's loadAndValidateToken at start-up, login, and on the     *)
(* favorites screen the focus effect and pull-to-refresh.  A reconcile     *)
(* run is one entry of started; its steps are the Rc actions above.        *)
(***************************************************************************)
LifeProcs == {"init", "auth", "login", "focus", "pull"}

\* a JWT with the exp claim (seconds), and a string jwtDecode rejects
JwtToken(exp) == [jwt |-> TRUE, exp |-> exp]
Garbage == [jwt |-> FALSE, exp |-> 0]
Tokens == {JwtToken(1), JwtToken(3), Garbage}

\* src/src/api/graphql.ts lines 321-359
VerifyTokenAlways(token, currentTime) == TRUE

VerifyToken(token, currentTime) ==
  /\ token # Null
  /\ token.jwt
  /\ token.exp # 0
  /\ ~(currentTime > token.exp * 1000)

IdleLife == [pc |-> "idle", isOnline |-> FALSE, token |-> Null]

LifeIdle ==
  /\ isConnected = TRUE
  /\ storedToken = Null
  /\ isAuthenticated = FALSE
  /\ life = [p \in LifeProcs |-> IdleLife]
  /\ started = {}

\* an updateAllFavorites() call made by trigger `by`, with the state of the
\* device and of the stored session at the call
Start(by) ==
  [by |-> by, online |-> isConnected, valid |-> VerifyToken(storedToken, now)]

LifeStep(p, from, to) ==
  /\ life[p].pc = from
  /\ life' = [life EXCEPT ![p].pc = to]

LifeFrame == UNCHANGED <<cacheVars, activeRequests, net, favVars, drainVars,
                         recentVars>>

\* the connection comes and goes
Connectivity ==
  /\ isConnected' = ~isConnected
  /\ UNCHANGED <<storedToken, isAuthenticated, life, started>>
  /\ LifeFrame

\* AppInitService.ts lines 13-18: App calls initializeApp, which awaits
\* isInternetAvailable()
IaCall ==
  /\ LifeStep("init", "idle", "net")
  /\ UNCHANGED <<isConnected, storedToken, isAuthenticated, started>>
  /\ LifeFrame

\* lines 18-25: offline the call returns, online it awaits the stored token
IaNet ==
  /\ life["init"].pc = "net"
  /\ life' = [life EXCEPT !["init"].isOnline = isConnected,
                          !["init"].pc = IF isConnected THEN "tok" ELSE "done"]
  /\ UNCHANGED <<isConnected, storedToken, isAuthenticated, started>>
  /\ LifeFrame

\* lines 25-33: without a token the call returns, with one it calls
\* updateAllFavorites() and awaits it
IaToken ==
  /\ life["init"].pc = "tok"
  /\ IF storedToken = Null
     THEN /\ life' = [life EXCEPT !["init"].pc = "done"]
          /\ UNCHANGED started
     ELSE /\ life' = [life EXCEPT !["init"].token = storedToken,
                                  !["init"].pc = "run"]
          /\ started' = started \cup {Start("initializeApp")}
  /\ UNCHANGED <<isConnected, storedToken, isAuthenticated>>
  /\ LifeFrame

\* lines 33-35: the run settles
IaRun ==
  /\ LifeStep("init", "run", "done")
  /\ UNCHANGED <<isConnected, storedToken, isAuthenticated, started>>
  /\ LifeFrame

\* graphql.ts lines 380-384 and 414: the provider mounts and awaits
\* secureRetrieveToken()
LvCall ==
  /\ LifeStep("auth", "idle", "tok")
  /\ UNCHANGED <<isConnected, storedToken, isAuthenticated, started>>
  /\ LifeFrame

\* lines 384-406: a valid token authenticates and starts
\* updateAllFavorites() without awaiting it, an invalid one is removed
LvToken ==
  /\ life["auth"].pc = "tok"
  /\ IF storedToken = Null
     THEN /\ life' = [life EXCEPT !["auth"].pc = "done"]
          /\ UNCHANGED <<isAuthenticated, started>>
     ELSE IF VerifyToken(storedToken, now)
          THEN /\ life' = [life EXCEPT !["auth"].token = storedToken,
                                       !["auth"].pc = "done"]
               /\ isAuthenticated' = TRUE
               /\ started' = started \cup {Start("loadAndValidateToken")}
          ELSE /\ life' = [life EXCEPT !["auth"].token = storedToken,
                                       !["auth"].pc = "rm"]
               /\ UNCHANGED <<isAuthenticated, started>>
  /\ UNCHANGED <<isConnected, storedToken>>
  /\ LifeFrame

\* line 402: AsyncStorage.removeItem settles
LvRemove ==
  /\ LifeStep("auth", "rm", "done")
  /\ storedToken' = Null
  /\ UNCHANGED <<isConnected, isAuthenticated, started>>
  /\ LifeFrame

\* graphql.ts lines 454-462 with AppNavigator.tsx line 71: the login screen
\* is shown to a user who is not authenticated; login awaits signInDirectly
LoginCall ==
  /\ ~isAuthenticated
  /\ LifeStep("login", "idle", "signin")
  /\ UNCHANGED <<isConnected, storedToken, isAuthenticated, started>>
  /\ LifeFrame

\* lines 462-470 and 480-484: signInDirectly fails, or returns a token that
\* is verified and then stored
LoginSignIn ==
  /\ life["login"].pc = "signin"
  /\ \/ /\ life' = [life EXCEPT !["login"].pc = "done"]
        /\ isAuthenticated' = FALSE
     \/ \E newToken \in Tokens :
          IF VerifyToken(newToken, now)
          THEN /\ life' = [life EXCEPT !["login"].token = newToken,
                                       !["login"].pc = "store"]
               /\ UNCHANGED isAuthenticated
          ELSE /\ life' = [life EXCEPT !["login"].pc = "done"]
               /\ isAuthenticated' = FALSE
  /\ UNCHANGED <<isConnected, storedToken, started>>
  /\ LifeFrame

\* lines 470-479: the token is stored, the user is authenticated and
\* updateAllFavorites() is started without awaiting it
LoginStore ==
  /\ life["login"].pc = "store"
  /\ storedToken' = life["login"].token
  /\ isAuthenticated' = TRUE
  /\ started' = started \cup
       {[by |-> "login", online |-> isConnected,
         valid |-> VerifyToken(life["login"].token, now)]}
  /\ life' = [life EXCEPT !["login"].pc = "done"]
  /\ UNCHANGED isConnected
  /\ LifeFrame

\* part_002 lines 179-186: the favorites screen comes into focus and, for
\* an authenticated user, sets the 300 ms timer
FocusEffect ==
  /\ isAuthenticated
  /\ LifeStep("focus", "idle", "timer")
  /\ UNCHANGED <<isConnected, storedToken, isAuthenticated, started>>
  /\ LifeFrame

\* part_002 lines 184-186 and 126-147: the timer fires fetchFavorites()
\* with isRefreshing = false, which goes to the LIST_ITEMS query
FocusTimer ==
  /\ LifeStep("focus", "timer", "list")
  /\ UNCHANGED <<isConnected, storedToken, isAuthenticated, started>>
  /\ LifeFrame

\* part_002 lines 144-163: the query settles and the list is shown
FocusList ==
  /\ LifeStep("focus", "list", "done")
  /\ UNCHANGED <<isConnected, storedToken, isAuthenticated, started>>
  /\ LifeFrame

\* part_002 lines 173-176 and 126-137: pull-to-refresh calls
\* fetchFavorites(true), which awaits updateAllFavorites()
PullCall ==
  /\ isAuthenticated
  /\ LifeStep("pull", "idle", "run")
  /\ started' = started \cup {Start("pull-to-refresh")}
  /\ UNCHANGED <<isConnected, storedToken, isAuthenticated>>
  /\ LifeFrame

\* part_002 lines 137-147: the run settles and the query is issued
PullRun ==
  /\ LifeStep("pull", "run", "list")
  /\ UNCHANGED <<isConnected, storedToken, isAuthenticated, started>>
  /\ LifeFrame

\* part_002 lines 144-163
PullList ==
  /\ LifeStep("pull", "list", "done")
  /\ UNCHANGED <<isConnected, storedToken, isAuthenticated, started>>
  /\ LifeFrame

(***************************************************************************)
(* addToRecentSearches (src/src/services/GeoService.ts), called by two     *)
(* callers whose steps interleave at the awaits                            *)
(***************************************************************************)
MaxCalls == 2   \* addToRecentSearches calls of one caller

\* line 74: slice(0, 10)
recentLimit == 10

RecentNames ==
  <<"Oslo", "Bergen", "Lima", "Kyiv", "Bonn", "Nice", "Pisa", "Bern", "Linz",
    "Graz", "Faro">>

\* lines 11-16: eleven cities with different names
RecentCity(i) ==
  [name |-> RecentNames[i], country |-> "EU", lat |-> i, lon |-> i]

\* the (name, country) of the first city at other coordinates, and its name
\* in another country
SameCity == [RecentCity(1) EXCEPT !.lat = 20, !.lon = 20]
OtherCountry == [RecentCity(1) EXCEPT !.country = "US"]

SearchedCities == {RecentCity(1), RecentCity(11), SameCity, OtherCountry, CityB}

\* Array.prototype.slice(0, n)
SliceAll(list, n) == list

Slice(list, n) == SubSeq(list, 1, IF n < Len(list) THEN n ELSE Len(list))

\* lines 68-70
InRecentSearches(recentSearches, city) ==
  \E i \in 1..Len(recentSearches) :
    /\ recentSearches[i].name = city.name
    /\ recentSearches[i].country = city.country

IdleRecent ==
  [pc |-> "idle", city |-> CityA, recentSearches |-> << >>,
   cityExists |-> FALSE, updatedSearches |-> << >>, calls |-> 0]

RecentIdle ==
  /\ recentStore = << >>
  /\ rs = [p \in Callers |-> IdleRecent]

RecentFrame == UNCHANGED <<cacheVars, activeRequests, net, favVars, drainVars,
                           lifeVars>>

\* lines 62-65: the call awaits getRecentSearches()
RsCall(p, city) ==
  /\ rs[p].pc \in {"idle", "done"}
  /\ rs[p].calls < MaxCalls
  /\ rs' = [rs EXCEPT ![p] = [IdleRecent EXCEPT !.pc = "read", !.city = city,
                                                !.calls = rs[p].calls + 1]]
  /\ UNCHANGED recentStore
  /\ RecentFrame

\* lines 65-75 and 87-90: the stored list is read; a city that is not in it
\* is put in front of it, the first ten are kept and storeData is awaited
RsRead(p) ==
  /\ rs[p].pc = "read"
  /\ LET recentSearches == recentStore
         cityExists == InRecentSearches(recentSearches, rs[p].city)
     IN rs' = [rs EXCEPT
                 ![p].recentSearches = recentSearches,
                 ![p].cityExists = cityExists,
                 ![p].updatedSearches =
                    IF cityExists THEN << >>
                    ELSE Slice(<<rs[p].city>> \o recentSearches, recentLimit),
                 ![p].pc = IF cityExists THEN "done" ELSE "store"]
  /\ UNCHANGED recentStore
  /\ RecentFrame

\* lines 75-77: storeData settles
RsStore(p) ==
  /\ rs[p].pc = "store"
  /\ recentStore' = rs[p].updatedSearches
  /\ rs' = [rs EXCEPT ![p].pc = "done"]
  /\ RecentFrame

(***************************************************************************)
(* The weather cache with two callers                                      *)
(***************************************************************************)
\* A snapshot cached by an earlier session at time 1, exactly
\* CACHE_EXPIRATION before the initial state.
OldSnapshot(city) ==
  [city |-> city.name, weatherId |-> ProviderId(city.lat, city.lon),
   lat |-> city.lat, lon |-> city.lon, country |-> city.country,
   timezone |-> 1, sunrise |-> 6, sunset |-> 18, fetch |-> 0]

WeatherInit ==
  /\ now = CACHE_EXPIRATION + 1
  /\ ticks = 0
  /\ \E cached \in SUBSET {CityA, CityB} :
       /\ weatherStore = [k \in {CityKey(c) : c \in cached} |->
                            OldSnapshot(CHOOSE c \in cached : CityKey(c) = k)]
       /\ timeStore = [k \in {CityKey(c) : c \in cached} |-> 1]
  /\ pendingStore = << >>
  /\ activeRequests = EmptyMap
  /\ net = << >>
  /\ gw = [p \in Callers |-> GwIdle]
  /\ remote = << >>
  /\ rc = [r \in Runs |-> IdleRun]
  /\ tg = [t \in Togglers |-> IdleToggle]
  /\ view = NoView
  /\ DrainIdle /\ LifeIdle /\ RecentIdle

\* the callers are named in the order in which they call
InCallOrder(p) == p = "c2" => gw["c1"].pc # "idle"

WeatherNext ==
  \/ Tick
  \/ \E n \in 1..MaxNet : NetSettle(n)
  \/ \E p \in Callers, city \in Cities, force \in BOOLEAN :
       InCallOrder(p) /\ GwCall(p, city, force)
  \/ \E p \in Callers : GwNet(p)
  \/ \E p \in Callers : GwTime(p)
  \/ \E p \in Callers : GwClrW(p)
  \/ \E p \in Callers : GwClrT(p)
  \/ \E p \in Callers : GwClrSW(p)
  \/ \E p \in Callers : GwClrST(p)
  \/ \E p \in Callers : GwFetch(p)
  \/ \E p \in Callers : GwPutW(p)
  \/ \E p \in Callers : GwPutT(p)
  \/ \E p \in Callers : GwPutSW(p)
  \/ \E p \in Callers : GwPutST(p)
  \/ \E p \in Callers : GwFbW(p)
  \/ \E p \in Callers : GwRdW(p)
  \/ \E p \in Callers : GwPqR(p)
  \/ \E p \in Callers : GwPqS(p)

WeatherSpec == WeatherInit /\ [][WeatherNext]_vars

(***************************************************************************)
(* The expiry boundary: one caller, and snapshots that were stored one     *)
(* millisecond less than, exactly, and one millisecond more than           *)
(* CACHE_EXPIRATION before the call reads the clock.                       *)
(***************************************************************************)
BoundaryAges ==
  {CACHE_EXPIRATION - 1, CACHE_EXPIRATION, CACHE_EXPIRATION + 1}

TtlInit ==
  /\ now = CACHE_EXPIRATION + 2
  /\ ticks = 0
  /\ \E cached \in SUBSET {CityA, CityB}, age \in BoundaryAges :
       /\ weatherStore = [k \in {CityKey(c) : c \in cached} |->
                            OldSnapshot(CHOOSE c \in cached : CityKey(c) = k)]
       /\ timeStore = [k \in {CityKey(c) : c \in cached} |-> now - age]
  /\ pendingStore = << >>
  /\ activeRequests = EmptyMap
  /\ net = << >>
  /\ gw = [p \in Callers |-> GwIdle]
  /\ remote = << >>
  /\ rc = [r \in Runs |-> IdleRun]
  /\ tg = [t \in Togglers |-> IdleToggle]
  /\ view = NoView
  /\ DrainIdle /\ LifeIdle /\ RecentIdle

TtlNext ==
  \/ \E n \in 1..MaxNet : NetSettle(n)
  \/ \E city \in Cities, force \in BOOLEAN : GwCall("c1", city, force)
  \/ GwNet("c1")
  \/ GwTime("c1")
  \/ GwClrW("c1")
  \/ GwClrT("c1")
  \/ GwClrSW("c1")
  \/ GwClrST("c1")
  \/ GwFetch("c1")
  \/ GwPutW("c1")
  \/ GwPutT("c1")
  \/ GwPutSW("c1")
  \/ GwPutST("c1")
  \/ GwFbW("c1")
  \/ GwRdW("c1")
  \/ GwPqR("c1")
  \/ GwPqS("c1")

TtlSpec == TtlInit /\ [][TtlNext]_vars

(***************************************************************************)
(* The favorites: one reconcile run, one toggle with the check after it,   *)
(* and the screens.  The operations are started one at a time: none        *)
(* starts while another is in progress, and one screen loads last.        *)
(***************************************************************************)
Live(name, weatherId, lat, lon, country) ==
  [name |-> name, content |-> Summary,
   metadata |-> Metadata(FALSE, weatherId, lat, lon, country, 1, 6, 18)]

\* what a remote item can look like
RecordShapes ==
  { Live("Paris", 11, 1, 1, "FR"),
    Live("Paris", 22, 2, 2, "FR"),
    Live("Rome", Absent, Absent, Absent, ""),
    [name |-> "Paris", content |-> Summary,
     metadata |-> Metadata(TRUE, 11, 1, 1, "FR", 1, 6, 18)],
    [name |-> "Paris", content |-> "",
     metadata |-> Metadata(FALSE, 11, 1, 1, "FR", 1, 6, 18)],
    [name |-> "Paris", content |-> "", metadata |-> BadJson] }

Record(shape, id, updatedAt) ==
  [id |-> id, name |-> shape.name, content |-> shape.content,
   metadata |-> shape.metadata, updatedAt |-> updatedAt]

\* the lists of up to MaxRecords items, updatedAt ascending or descending
ShortLists ==
  UNION { { [i \in 1..n |-> Record(f[i], "r" \o ToString(i),
                                   IF asc THEN i ELSE n + 1 - i)] :
              f \in [1..n -> RecordShapes], asc \in BOOLEAN } :
          n \in 0..MaxRecords }

\* Duplicates of one favorite with the newest in the middle, a soft-deleted
\* item that is newer still, and four favorites to update (two batches).
DuplicatesList ==
  << Record(Live("Paris", 11, 1, 1, "FR"), "r1", 1),
     Record(Live("PARIS", 11, 1, 1, "FR"), "r2", 5),
     Record([name |-> "Paris", content |-> "",
             metadata |-> Metadata(TRUE, Absent, Absent, Absent, "", Absent, Absent, Absent)], "r3", 6),
     Record(Live("Paris", 11, 1, 1, "FR"), "r4", 2),
     Record(Live("Rome", 33, 3, 3, "IT"), "r5", 3),
     Record(Live("Paris", 22, 2, 2, "FR"), "r6", 4),
     Record(Live("Rome", Absent, Absent, Absent, ""), "r7", 7) >>

\* Four favorites with four cache keys (two batches), and an item whose
\* metadata does not parse.
FourCitiesList ==
  << Record(Live("Paris", 11, 1, 1, "FR"), "r1", 1),
     Record(Live("PARIS", 22, 2, 2, "FR"), "r2", 2),
     Record([name |-> "Rome", content |-> Summary, metadata |-> BadJson], "r3", 3),
     Record(Live("Rome", 33, 3, 3, "IT"), "r4", 4),
     Record(Live("Rome", Absent, 3, 3, ""), "r5", 5) >>

\* One city saved under two names: the items share the weatherId.
AliasList ==
  << Record(Live("Rome", 33, 3, 3, "IT"), "r1", 1),
     Record(Live("Roma", 33, 3, 3, "IT"), "r2", 2),
     Record(Live("Oslo", 44, 4, 4, "NO"), "r3", 3) >>

InitialLists == ShortLists \cup {DuplicatesList, FourCitiesList, AliasList}

\* the snapshots the user can toggle
ToggleInputs == {OldSnapshot(CityA), OldSnapshot(CityB)}

\* the (city name, weather id) pairs the home screen checks
CheckInputs == {<<"Paris", 11>>, <<"Paris", Absent>>, <<"Rome", 33>>}

\* no operation is in progress (a toggle is followed by its check)
Quiescent ==
  /\ \A r \in Runs : rc[r].pc \in {"idle", "done"}
  /\ \A t \in Togglers : tg[t].pc \in {"idle", "checked"}

\* the screens have not yet loaded
Unseen == view = NoView

FavInit ==
  /\ now = CACHE_EXPIRATION + 1
  /\ ticks = 0
  /\ weatherStore = EmptyMap
  /\ timeStore = EmptyMap
  /\ pendingStore = << >>
  /\ activeRequests = EmptyMap
  /\ net = << >>
  /\ gw = [p \in Callers |-> GwIdle]
  /\ remote \in InitialLists
  /\ rc = [r \in Runs |-> IdleRun]
  /\ tg = [t \in Togglers |-> IdleToggle]
  /\ view = NoView
  /\ DrainIdle /\ LifeIdle /\ RecentIdle

FavNext ==
  \/ \E n \in 1..MaxNet : NetSettle(n)
  \/ (Quiescent /\ Unseen /\ RcCall("u1"))
  \/ RcList("u1")
  \/ \E j \in 1..batchSize : RcGeo("u1", j)
  \/ \E j \in 1..batchSize : RcFetch("u1", j)
  \/ \E j \in 1..batchSize : RcToken("u1", j)
  \/ \E j \in 1..batchSize : RcMutate("u1", j)
  \/ RcJoin("u1")
  \/ RcDelay("u1")
  \/ \E weatherData \in ToggleInputs :
       Quiescent /\ Unseen /\ TgCall("t1", weatherData)
  \/ TgCheck("t1")
  \/ TgList("t1")
  \/ \E k \in 1..(MaxRecords + 7) : TgRemove("t1", k)
  \/ TgJoin("t1")
  \/ TgToken("t1")
  \/ TgSave("t1")
  \/ TgAfter("t1")
  \/ (Quiescent /\ Unseen /\ FsFetchFavorites)
  \/ \E c \in CheckInputs : Quiescent /\ Unseen /\ HsCheckFavorite(c[1], c[2])

FavSpec == FavInit /\ [][FavNext]_vars

(***************************************************************************)
(* The drain of the pending queue                                          *)
(***************************************************************************)
Min(a, b) == IF a < b THEN a ELSE b

\* the queues of up to MaxQueue cities
Queues ==
  {SubSeq(QueuedCities, 1, n) : n \in 0..Min(MaxQueue, Len(QueuedCities))}

DrainInit ==
  /\ now = CACHE_EXPIRATION + 1
  /\ ticks = 0
  /\ \E cached \in SUBSET {CityB} :
       /\ weatherStore = [k \in {CityKey(c) : c \in cached} |->
                            OldSnapshot(CHOOSE c \in cached : CityKey(c) = k)]
       /\ timeStore = [k \in {CityKey(c) : c \in cached} |-> 1]
  /\ pendingStore \in Queues
  /\ activeRequests = EmptyMap
  /\ net = << >>
  /\ gw = [p \in Callers |-> GwIdle]
  /\ remote = << >>
  /\ rc = [r \in Runs |-> IdleRun]
  /\ tg = [t \in Togglers |-> IdleToggle]
  /\ view = NoView
  /\ DrainIdle /\ LifeIdle /\ RecentIdle

DrainNext ==
  \/ \E n \in 1..MaxNet : NetSettle(n)
  \/ PpCall
  \/ PpNet
  \/ PpQueue
  \/ \E j \in 1..drainBatchSize : PpFetch(j)
  \/ \E j \in 1..drainBatchSize : PpRdW(j)
  \/ \E j \in 1..drainBatchSize : PpRdT(j)
  \/ \E j \in 1..drainBatchSize : PpStW(j)
  \/ \E j \in 1..drainBatchSize : PpStT(j)
  \/ PpJoin
  \/ PpDelay
  \/ PpClear

DrainSpec == DrainInit /\ [][DrainNext]_vars

(***************************************************************************)
(* The lifecycle: a device that starts online or offline, with or without  *)
(* a stored token, and each trigger used once.                             *)
(***************************************************************************)
LifeInit ==
  /\ now = 2000
  /\ ticks = 0
  /\ weatherStore = EmptyMap
  /\ timeStore = EmptyMap
  /\ pendingStore = << >>
  /\ activeRequests = EmptyMap
  /\ net = << >>
  /\ gw = [p \in Callers |-> GwIdle]
  /\ remote = << >>
  /\ rc = [r \in Runs |-> IdleRun]
  /\ tg = [t \in Togglers |-> IdleToggle]
  /\ view = NoView
  /\ DrainIdle /\ RecentIdle
  /\ isConnected \in BOOLEAN
  /\ storedToken \in Tokens \cup {Null}
  /\ isAuthenticated = FALSE
  /\ life = [p \in LifeProcs |-> IdleLife]
  /\ started = {}

LifeNext ==
  \/ Connectivity
  \/ IaCall
  \/ IaNet
  \/ IaToken
  \/ IaRun
  \/ LvCall
  \/ LvToken
  \/ LvRemove
  \/ LoginCall
  \/ LoginSignIn
  \/ LoginStore
  \/ FocusEffect
  \/ FocusTimer
  \/ FocusList
  \/ PullCall
  \/ PullRun
  \/ PullList

LifeSpec == LifeInit /\ [][LifeNext]_vars

(***************************************************************************)
(* The recent searches: a stored list that is empty, one short of the      *)
(* limit, or full, and two callers.                                        *)
(***************************************************************************)
StoredSearches == [n \in 1..recentLimit |-> RecentCity(n)]

RecentInit ==
  /\ now = CACHE_EXPIRATION + 1
  /\ ticks = 0
  /\ weatherStore = EmptyMap
  /\ timeStore = EmptyMap
  /\ pendingStore = << >>
  /\ activeRequests = EmptyMap
  /\ net = << >>
  /\ gw = [p \in Callers |-> GwIdle]
  /\ remote = << >>
  /\ rc = [r \in Runs |-> IdleRun]
  /\ tg = [t \in Togglers |-> IdleToggle]
  /\ view = NoView
  /\ DrainIdle /\ LifeIdle
  /\ \E n \in {0, recentLimit - 1, recentLimit} :
       recentStore = SubSeq(StoredSearches, 1, n)
  /\ rs = [p \in Callers |-> IdleRecent]

RecentNext ==
  \/ \E p \in Callers, city \in SearchedCities : RsCall(p, city)
  \/ \E p \in Callers : RsRead(p)
  \/ \E p \in Callers : RsStore(p)

RecentSpec == RecentInit /\ [][RecentNext]_vars

(***************************************************************************)
(* The batches: either a reconcile run over a list with two batches or a   *)
(* drain of a queue.                                                       *)
(***************************************************************************)
\* A favorite on the equator (lat 0) and one with all its geodata.
EquatorList ==
  << Record(Live("Rome", 33, 0, 3, "IT"), "r1", 1),
     Record(Live("Paris", 11, 1, 1, "FR"), "r2", 2) >>

BatchInit ==
  /\ now = CACHE_EXPIRATION + 1
  /\ ticks = 0
  /\ weatherStore = EmptyMap
  /\ timeStore = EmptyMap
  /\ pendingStore \in Queues
  /\ activeRequests = EmptyMap
  /\ net = << >>
  /\ gw = [p \in Callers |-> GwIdle]
  /\ remote \in {DuplicatesList, FourCitiesList, EquatorList}
  /\ rc = [r \in Runs |-> IdleRun]
  /\ tg = [t \in Togglers |-> IdleToggle]
  /\ view = NoView
  /\ DrainIdle /\ LifeIdle /\ RecentIdle

BatchNext ==
  \/ \E n \in 1..MaxNet : NetSettle(n)
  \/ (pp.pc = "idle" /\ RcCall("u1"))
  \/ RcList("u1")
  \/ \E j \in 1..batchSize : RcGeo("u1", j)
  \/ \E j \in 1..batchSize : RcFetch("u1", j)
  \/ \E j \in 1..batchSize : RcToken("u1", j)
  \/ \E j \in 1..batchSize : RcMutate("u1", j)
  \/ RcJoin("u1")
  \/ RcDelay("u1")
  \/ (rc["u1"].pc = "idle" /\ PpCall)
  \/ PpNet
  \/ PpQueue
  \/ \E j \in 1..drainBatchSize : PpFetch(j)
  \/ \E j \in 1..drainBatchSize : PpRdW(j)
  \/ \E j \in 1..drainBatchSize : PpRdT(j)
  \/ \E j \in 1..drainBatchSize : PpStW(j)
  \/ \E j \in 1..drainBatchSize : PpStT(j)
  \/ PpJoin
  \/ PpDelay
  \/ PpClear

BatchSpec == BatchInit /\ [][BatchNext]_vars

(***************************************************************************)
(* The favorites under interleaving: a reconcile run and two toggles of    *)
(* one city, started at any time, on a store that holds the city as a      *)
(* favorite or holds nothing.  A run has at most three candidates here,    *)
(* each with its coordinates: one batch, and no geo search.                *)
(***************************************************************************)
RaceInit ==
  /\ now = CACHE_EXPIRATION + 1
  /\ ticks = 0
  /\ weatherStore = EmptyMap
  /\ timeStore = EmptyMap
  /\ pendingStore = << >>
  /\ activeRequests = EmptyMap
  /\ net = << >>
  /\ gw = [p \in Callers |-> GwIdle]
  /\ remote \in {<< >>, <<Record(Live("Paris", 11, 1, 1, "FR"), "r1", 1)>>}
  /\ rc = [r \in Runs |-> IdleRun]
  /\ tg = [t \in Togglers |-> IdleToggle]
  /\ view = NoView
  /\ DrainIdle /\ LifeIdle /\ RecentIdle

RaceNext ==
  \/ \E n \in 1..MaxNet : NetSettle(n)
  \/ RcCall("u1")
  \/ RcList("u1")
  \/ \E j \in 1..batchSize : RcFetch("u1", j)
  \/ \E j \in 1..batchSize : RcToken("u1", j)
  \/ \E j \in 1..batchSize : RcMutate("u1", j)
  \/ RcJoin("u1")
  \/ \E t \in Togglers : TgCall(t, OldSnapshot(CityA))
  \/ \E t \in Togglers : TgCheck(t)
  \/ \E t \in Togglers : TgList(t)
  \/ \E t \in Togglers, k \in 1..(MaxRecords + 1) : TgRemove(t, k)
  \/ \E t \in Togglers : TgJoin(t)
  \/ \E t \in Togglers : TgToken(t)
  \/ \E t \in Togglers : TgSave(t)

RaceSpec == RaceInit /\ [][RaceNext]_vars

(***************************************************************************)
(* The cache under interleaving: one getWeatherData call, forced or not,   *)
(* and one drain of a queue that holds one city, started at any time.  A   *)
(* queue of one city is one batch: the delay between batches never runs.   *)
(***************************************************************************)
MixInit ==
  /\ now = CACHE_EXPIRATION + 1
  /\ ticks = 0
  /\ \E cached \in SUBSET {CityA} :
       /\ weatherStore = [k \in {CityKey(c) : c \in cached} |->
                            OldSnapshot(CHOOSE c \in cached : CityKey(c) = k)]
       /\ timeStore = [k \in {CityKey(c) : c \in cached} |-> 1]
  /\ pendingStore = <<CityB>>
  /\ activeRequests = EmptyMap
  /\ net = << >>
  /\ gw = [p \in Callers |-> GwIdle]
  /\ remote = << >>
  /\ rc = [r \in Runs |-> IdleRun]
  /\ tg = [t \in Togglers |-> IdleToggle]
  /\ view = NoView
  /\ DrainIdle /\ LifeIdle /\ RecentIdle

MixNext ==
  \/ \E n \in 1..MaxNet : NetSettle(n)
  \/ \E city \in {CityA, CityB}, force \in BOOLEAN : GwCall("c1", city, force)
  \/ GwNet("c1")
  \/ GwTime("c1")
  \/ GwClrW("c1")
  \/ GwClrT("c1")
  \/ GwClrSW("c1")
  \/ GwClrST("c1")
  \/ GwFetch("c1")
  \/ GwPutW("c1")
  \/ GwPutT("c1")
  \/ GwPutSW("c1")
  \/ GwPutST("c1")
  \/ GwFbW("c1")
  \/ GwRdW("c1")
  \/ GwPqR("c1")
  \/ GwPqS("c1")
  \/ PpCall
  \/ PpNet
  \/ PpQueue
  \/ PpFetch(1)
  \/ PpRdW(1)
  \/ PpRdT(1)
  \/ PpStW(1)
  \/ PpStT(1)
  \/ PpJoin
  \/ PpClear

MixSpec == MixInit /\ [][MixNext]_vars

(***************************************************************************)
(* Properties of the weather cache                                         *)
(***************************************************************************)
Keys == {CityKey(c) : c \in Cities}
Done(p) == gw[p].pc = "done"
RoundTrips(k) == {n \in 1..Len(net) : net[n].key = k}
InFlightTrips(k) == {n \in RoundTrips(k) : net[n].state = "pending"}

\* the entries of a pending queue with the (name, country) of city
Queued(queue, city) ==
  {i \in 1..Len(queue) : queue[i].name = city.name /\ queue[i].country = city.country}

\* C1: two getWeatherData(city, forceRefresh = true) calls issued together
\* (the second starts while the first is at its first await), both online,
\* cause exactly one network round-trip for the city and return the same
\* snapshot.
C1_OneFetchPairForConcurrentRefresh ==
  \A p, q \in Callers :
    (/\ p # q /\ Done(p) /\ Done(q)
     /\ gw[p].together /\ gw[q].together
     /\ gw[p].city = gw[q].city
     /\ gw[p].forceRefresh /\ gw[q].forceRefresh
     /\ gw[p].isOnline /\ gw[q].isOnline)
    => /\ Cardinality(RoundTrips(CityKey(gw[p].city))) = 1
       /\ gw[p].result = gw[q].result

\* C2: per cache key at most one network round-trip is in flight; every
\* caller awaiting a request of the key that is in flight awaits the one
\* registered in activeRequests, and a caller that found the request in
\* flight started no network call.
C2_AtMostOneInFlight ==
  /\ \A k \in Keys : Cardinality(InFlightTrips(k)) <= 1
  /\ \A p \in Callers :
       (gw[p].pc = "fetch" /\ net[gw[p].promise].state = "pending")
       => /\ Has(activeRequests, CityKey(gw[p].city))
          /\ gw[p].promise = activeRequests[CityKey(gw[p].city)]
          /\ (~gw[p].owner => gw[p].netCalls = 0)

\* two callers await the same in-flight request, one of them joined it
C2_Witness ==
  \E p, q \in Callers :
    /\ p # q
    /\ gw[p].pc = "fetch" /\ gw[q].pc = "fetch"
    /\ gw[p].promise = gw[q].promise
    /\ net[gw[p].promise].state = "pending"
    /\ gw[p].owner /\ ~gw[q].owner

\* C6: a call that runs alone, online, with a cached snapshot and an
\* expired cache or forceRefresh, and whose fetch fails, returns the
\* snapshot that was cached.
C6_StaleCachePreferredOverError ==
  \A p \in Callers :
    (/\ Done(p) /\ ~gw[p].conc
     /\ gw[p].isOnline /\ gw[p].isCacheExpired
     /\ gw[p].startSnap # Null
     /\ gw[p].fetchFailed)
    => gw[p].result = gw[p].startSnap

\* C7: a call that found the device offline starts no network call; when
\* a snapshot was cached for its city and no other call ran meanwhile, it
\* returns that snapshot and writes nothing to the storage.
C7_OfflineFallback ==
  \A p \in Callers :
    (Done(p) /\ ~gw[p].isOnline)
    => /\ gw[p].netCalls = 0
       /\ (gw[p].startSnap # Null /\ ~gw[p].conc)
          => /\ gw[p].result = gw[p].startSnap
             /\ gw[p].writes = 0

\* an offline forced refresh of a city with an expired cached snapshot
C7_Witness ==
  \E p \in Callers :
    /\ Done(p) /\ ~gw[p].isOnline /\ ~gw[p].conc
    /\ gw[p].forceRefresh
    /\ gw[p].currentTime > 1 + CACHE_EXPIRATION
    /\ gw[p].startSnap # Null
    /\ gw[p].result = gw[p].startSnap

\* C8: when a call that found the device offline and no cached snapshot
\* returns, it returns null and the pending queue holds its city
\* (by name and country) exactly once; the call ran alone, or after or
\* together with a call for the same name and country.
C8_OfflineColdMissEnqueuesOnce ==
  [][\A p \in Callers :
       (/\ ~Done(p) /\ Done(p)'
        /\ ~gw'[p].isOnline
        /\ gw'[p].cachedData = Null
        /\ \/ ~gw'[p].conc
           \/ \A q \in Callers : CityKey(gw'[q].city) = CityKey(gw'[p].city))
       => /\ gw'[p].result = Null
          /\ Cardinality(Queued(pendingStore', gw'[p].city)) = 1]_vars

\* both callers asked offline for the same uncached city, one after the
\* other, and the queue holds it once
C8_Witness ==
  \E p, q \in Callers :
    /\ p # q /\ Done(p) /\ Done(q)
    /\ ~gw[q].conc
    /\ gw[p].city = gw[q].city
    /\ ~gw[p].isOnline /\ ~gw[q].isOnline
    /\ gw[p].cachedData = Null /\ gw[q].cachedData = Null
    /\ gw[p].result = Null /\ gw[q].result = Null
    /\ gw[p].writes = 1 /\ gw[q].writes = 0
    /\ Cardinality(Queued(pendingStore, gw[p].city)) = 1

(***************************************************************************)
(* Properties of the favorites                                             *)
(***************************************************************************)
\* a remote item with content "" or with metadata.deleted = true
SoftDeleted(item) ==
  item.content = "" \/ (Parses(item.metadata) /\ item.metadata.deleted)

NotSoftDeleted(item) == ~SoftDeleted(item)

Items(list) == {list[i] : i \in 1..Len(list)}

\* the run read the list and settled every batch
Reconciled(r) == rc[r].pc = "done" /\ rc[r].favorites # << >>

\* C3: a soft-deleted item never counts as a favorite: the answer of
\* checkIfCityInFavorites is the one it gives on the list without the
\* soft-deleted items, and neither the favorites that updateAllFavorites
\* updates nor the favorites that the favorites screen shows contain a
\* soft-deleted item.
C3_SoftDeletedNeverCounts ==
  /\ view.checked =>
       view.isFavorite = CheckIfCityInFavorites(
                           SelectSeq(view.checkedItems, NotSoftDeleted),
                           view.cityName, view.weatherId)
  /\ \A r \in Runs : \A item \in Items(rc[r].favorites) : ~SoftDeleted(item)
  /\ \A item \in Items(view.favorites) : ~SoftDeleted(item)

\* the items of a list that are not soft-deleted and have metadata that
\* parses
LiveItems(list) ==
  {x \in Items(list) : ~SoftDeleted(x) /\ Parses(x.metadata)}

\* those with the composite key of item
Group(list, item) ==
  {x \in LiveItems(list) : DedupeKey(x) = DedupeKey(item)}

\* the tasks of a finished run that belong to a group of items
TasksOf(r, group) ==
  {j \in 1..Len(rc[r].settled) : rc[r].settled[j].favorite \in group}

\* C4: when a run of updateAllFavorites is over, each composite key of
\* the non-soft-deleted items with parseable metadata had exactly one
\* task, for the item of the key with the greatest updatedAt, and the
\* tasks are as many as the keys; a task fetches and upserts at most once.
C4_OneNewestRepresentativePerKey ==
  \A r \in Runs :
    Reconciled(r)
    => /\ \A item \in LiveItems(rc[r].allItems) :
            LET group == Group(rc[r].allItems, item)
            IN /\ Cardinality(TasksOf(r, group)) = 1
               /\ \A j \in TasksOf(r, group) :
                    rc[r].settled[j].favorite.updatedAt
                      = Max({x.updatedAt : x \in group})
       /\ Len(rc[r].settled)
            = Cardinality({DedupeKey(x) : x \in LiveItems(rc[r].allItems)})

\* three live duplicates of one key with the newest in the middle of the
\* list and a newer soft-deleted item of the same name: the newest live
\* one was fetched and upserted
C4_Witness ==
  \E r \in Runs :
    /\ Reconciled(r)
    /\ \E item \in Items(rc[r].allItems) :
         /\ Cardinality(Group(rc[r].allItems, item)) = 3
         /\ \E d \in Items(rc[r].allItems) :
              /\ SoftDeleted(d) /\ d.name = item.name
              /\ \A x \in Group(rc[r].allItems, item) : d.updatedAt > x.updatedAt
         /\ \E j \in TasksOf(r, Group(rc[r].allItems, item)) :
              /\ rc[r].settled[j].favorite.id = "r2"
              /\ rc[r].settled[j].fetched = "ok"
              /\ rc[r].settled[j].saved = "ok"

\* the task ended with both its fetch and its upsert done
Succeeded(task) == task.fetched = "ok" /\ task.saved = "ok"

\* C5: when a run of updateAllFavorites is over, every favorite it had to
\* update had its task, whatever happened to the others: a task made no
\* fetch only when the favorite has no coordinates and the geo search
\* found none, every task whose fetch succeeded made its upsert, and the
\* value returned is the number of tasks whose fetch and upsert succeeded.
C5_FailuresAreIndependent ==
  \A r \in Runs :
    Reconciled(r)
    => /\ Len(rc[r].settled) = Len(rc[r].favorites)
       /\ \A j \in 1..Len(rc[r].settled) :
            LET task == rc[r].settled[j]
            IN /\ task.favorite = rc[r].favorites[j]
               /\ task.fetched = "no" => MissingGeo(MetadataGeo(task.favorite))
               /\ task.fetched = "ok" => task.saved \in {"ok", "err"}
               /\ task.pc = "true" <=> Succeeded(task)
       /\ rc[r].result
            = Cardinality({j \in 1..Len(rc[r].settled) : Succeeded(rc[r].settled[j])})

\* four favorites, two batches: the fetch of the second favorite of the
\* first batch failed, the other three were fetched and upserted, and the
\* run returned 3
C5_Witness ==
  \E r \in Runs :
    /\ Reconciled(r)
    /\ Len(rc[r].settled) = batchSize + 1
    /\ rc[r].settled[2].fetched = "err"
    /\ \A j \in {1, 3, batchSize + 1} : Succeeded(rc[r].settled[j])
    /\ rc[r].result = 3

\* C9: when toggleFavorite found the city among the favorites and returned
\* true, the isCityInFavorites call made right after it returns false.
C9_ToggledOffIsNotFavorite ==
  \A t \in Togglers :
    (tg[t].pc = "checked" /\ tg[t].isAlreadyFavorite /\ tg[t].result)
    => ~tg[t].after

\* the ids of the favorites that the run updates
CandidateIds(r) == {item.id : item \in Items(rc[r].favorites)}

\* C10: a step of updateAllFavorites adds no item to the remote store and
\* changes no item but one of the favorites it updates, which keeps its
\* id: every other item stays as it was.
C10_ReconcileWritesOnlyCandidates ==
  [][\A r \in Runs :
       rc'[r] # rc[r]
       => /\ Len(remote') = Len(remote)
          /\ \A i \in 1..Len(remote) :
               remote'[i] # remote[i]
               => /\ remote[i].id \in CandidateIds(r)
                  /\ remote'[i].id = remote[i].id]_vars

\* a run over a list with a soft-deleted item, a stale duplicate and an
\* item without coordinates upserted two favorites; the store has the
\* items it had and those that the run did not update are as they were
C10_Witness ==
  \E r \in Runs :
    /\ Reconciled(r)
    /\ rc[r].result >= 2
    /\ Len(remote) = Len(rc[r].allItems)
    /\ \E i, j, k \in 1..Len(remote) :
         /\ SoftDeleted(remote[i]) /\ remote[i] = rc[r].allItems[i]
         /\ remote[j] = rc[r].allItems[j]
         /\ remote[j] \in LiveItems(remote)
         /\ remote[j].id \notin CandidateIds(r)
         /\ remote[k].id \in CandidateIds(r)
         /\ remote[k].updatedAt > rc[r].allItems[k].updatedAt

\* C11: updateAllFavorites always returns a number: the call that ends
\* when the list query settles (the query failed, or no item is left
\* after the filter) returns 0 and has started no geo search, no weather
\* fetch and no upsert, and with no item left after the filter the call
\* ends there.
C11_ReconcileReturnsZeroWithoutWork ==
  [][\A r \in Runs :
       rc'[r] # rc[r]
       => /\ rc'[r].pc = "done" => rc'[r].result \in 0..Len(rc'[r].favorites)
          /\ rc[r].pc = "list"
             => /\ LiveItems(remote) = {} => rc'[r].pc = "done"
                /\ rc'[r].pc = "done"
                   => /\ rc'[r].result = 0
                      /\ rc'[r].tasks = << >> /\ rc'[r].settled = << >>
                      /\ net' = net /\ remote' = remote]_vars

\* the run listed items, none of them a live favorite, and returned 0
\* with no round-trip started
C11_Witness ==
  \E r \in Runs :
    /\ rc[r].pc = "done" /\ rc[r].result = 0
    /\ Len(rc[r].allItems) >= 2
    /\ LiveItems(rc[r].allItems) = {}
    /\ rc[r].settled = << >> /\ net = << >>
    /\ remote = rc[r].allItems

(***************************************************************************)
(* Properties of the drain of the pending queue                            *)
(***************************************************************************)
\* the call found the device online and the queue not empty, and returned
Drained == pp.pc = "done" /\ pp.isOnline /\ pp.pendingRequests # << >>

\* C12: when processPendingRequests has returned, the snapshot of every
\* queued city whose fetch succeeded is in the weather cache under the
\* city's key, and so is a fetch time.
C12_DrainedCitiesAreCached ==
  Drained
  => \A j \in 1..Len(pp.settled) :
       pp.settled[j].fetched = "ok"
       => /\ Get(weatherStore, CityKey(pp.settled[j].city)) = pp.settled[j].data
          /\ HasTime(timeStore, CityKey(pp.settled[j].city))

\* C13: when processPendingRequests has returned, every queued city had
\* its task, in the order of the queue, and the task awaited a round-trip
\* for the city's key, whatever the outcome of the others; and the pending
\* queue is empty.
C13_EveryCityAttemptedThenQueueCleared ==
  Drained
  => /\ Len(pp.settled) = Len(pp.pendingRequests)
     /\ \A j \in 1..Len(pp.settled) :
          /\ pp.settled[j].city = pp.pendingRequests[j]
          /\ pp.settled[j].promise \in 1..Len(net)
          /\ net[pp.settled[j].promise].key = CityKey(pp.settled[j].city)
          /\ pp.settled[j].fetched \in {"ok", "err"}
     /\ pendingStore = << >>

\* two batches: the fetches of the first batch failed, the city of the
\* second batch was fetched and stored, and the queue is empty
C13_Witness ==
  /\ Drained
  /\ Len(pp.settled) = drainBatchSize + 1
  /\ \A j \in 1..drainBatchSize : pp.settled[j].fetched = "err"
  /\ pp.settled[drainBatchSize + 1].stored
  /\ pendingStore = << >>

(***************************************************************************)
(* Properties of the cache under eviction, and of its expiration           *)
(***************************************************************************)
\* the call p is inside clearCityWeatherCache for the cache key k
Evicting(p, k) ==
  /\ gw[p].pc \in {"clr_w", "clr_t", "clr_sw", "clr_st"}
  /\ CityKey(gw[p].city) = k

\* C14: while a call is inside clearCityWeatherCache for a city, what
\* another call reads for the city is consistent: the call that is about
\* to read the fetch times (line 228) does not find the snapshot stored
\* and the time missing, and the call that found the time fresh and is
\* about to read the snapshots (line 273) does not find the time stored
\* and the snapshot missing.
C14_EvictIsAtomicForReaders ==
  \A p, q \in Callers :
    LET k == CityKey(gw[q].city)
    IN (p # q /\ Evicting(p, k))
       => /\ gw[q].pc = "time"
             => ~(Has(weatherStore, k) /\ ~HasTime(timeStore, k))
          /\ (gw[q].pc = "rd_w" /\ ~gw[q].isCacheExpired)
             => ~(HasTime(timeStore, k) /\ ~Has(weatherStore, k))

(***************************************************************************)
(* Properties of the expiry boundary.                                      *)
(***************************************************************************)
\* the age of the snapshot that call p found, at the time p read the clock
Age(p) == gw[p].currentTime - gw[p].startTime

\* a finished call that ran online, not forced, on a city with a snapshot
Boundary(p) ==
  /\ Done(p) /\ gw[p].isOnline /\ ~gw[p].forceRefresh
  /\ gw[p].startSnap # Null /\ gw[p].startTime # 0

Refetched(p) == gw[p].isCacheExpired /\ gw[p].netCalls = 1
ServedFromCache(p) ==
  /\ ~gw[p].isCacheExpired
  /\ gw[p].netCalls = 0
  /\ gw[p].result = gw[p].startSnap

\* C15 (as stated): a snapshot aged exactly CACHE_EXPIRATION is expired and
\* the online call refetches, one aged CACHE_EXPIRATION - 1 is returned
\* without a network call.
C15_ExpiredAtExactlyOneHour ==
  \A p \in Callers :
    Boundary(p)
    => /\ (Age(p) = CACHE_EXPIRATION => Refetched(p))
       /\ (Age(p) = CACHE_EXPIRATION - 1 => ServedFromCache(p))

\* C15 (amended): a snapshot is expired when its age is more than
\* CACHE_EXPIRATION: aged exactly CACHE_EXPIRATION or CACHE_EXPIRATION - 1 it
\* is returned without a network call, aged CACHE_EXPIRATION + 1 the online
\* call refetches.
C15_ExpiredAfterOneHour ==
  \A p \in Callers :
    Boundary(p)
    => /\ (Age(p) = CACHE_EXPIRATION + 1 => Refetched(p))
       /\ (Age(p) = CACHE_EXPIRATION => ServedFromCache(p))
       /\ (Age(p) = CACHE_EXPIRATION - 1 => ServedFromCache(p))

\* a snapshot aged exactly CACHE_EXPIRATION was returned from the cache
C15_Witness ==
  \E p \in Callers :
    /\ Boundary(p)
    /\ Age(p) = CACHE_EXPIRATION
    /\ ServedFromCache(p)

(***************************************************************************)
(* Properties of the lifecycle triggers.                                   *)
(***************************************************************************)
StartUpPaths == {"initializeApp", "loadAndValidateToken"}

\* C16: no start-up path (initializeApp, loadAndValidateToken) starts an
\* updateAllFavorites run while the device is offline or while the stored
\* token is not a valid, unexpired session.
C16_StartUpRunsOnlyOnlineAndAuthenticated ==
  \A s \in started : s.by \in StartUpPaths => s.online /\ s.valid

\* C17: when the list was shown after the favorites screen came into
\* focus, the focus had started an updateAllFavorites run before the list
\* was read.
C17_FocusStartsReconcile ==
  life["focus"].pc = "done" => \E s \in started : s.by = "focus"

(***************************************************************************)
(* Properties of the recent searches.                                      *)
(***************************************************************************)
NoDuplicates(list) ==
  \A i, j \in 1..Len(list) :
    (list[i].name = list[j].name /\ list[i].country = list[j].country) => i = j

\* C18: whatever addToRecentSearches calls ran and however their steps
\* interleaved, the stored list has at most ten entries and no two entries
\* with the same (name, country); and a call that did not find its city in
\* the list stores a list with that city at the front.
C18_RecentSearchesBoundedUniqueFrontInsert ==
  /\ [](Len(recentStore) <= recentLimit /\ NoDuplicates(recentStore))
  /\ [][\A p \in Callers :
          (rs[p].pc = "store" /\ rs'[p].pc = "done")
          => /\ ~InRecentSearches(rs[p].recentSearches, rs[p].city)
             /\ recentStore'[1] = rs[p].city
             /\ \A i \in 2..Len(recentStore') :
                  recentStore'[i] = rs[p].recentSearches[i - 1]]_vars

\* a new city was put in front of a full list, whose last entry was dropped,
\* after the other caller had stored a list too
C18_Witness ==
  \E p, q \in Callers :
    /\ p # q
    /\ rs[p].pc = "done" /\ ~rs[p].cityExists
    /\ Len(rs[p].recentSearches) = recentLimit
    /\ Len(recentStore) = recentLimit
    /\ recentStore[1] = rs[p].city
    /\ rs[q].pc = "done" /\ ~rs[q].cityExists

\* C19: an item whose metadata does not parse is treated as absent wherever
\* favorites are enumerated: when isCityInFavorites answers true, an item
\* with parseable metadata accounts for the answer, and toggleFavorite
\* selects no item whose metadata does not parse.
C19_UnparseableMetadataIsAbsent ==
  /\ (view.checked /\ view.isFavorite)
     => \E item \in Items(view.checkedItems) :
          /\ Parses(item.metadata)
          /\ ItemIsFavorite(item, view.cityName, view.weatherId)
  /\ \A t \in Togglers :
       \A item \in Items(tg[t].matchingItems) : Parses(item.metadata)

\* the items of the list that toggle t must mark as deleted: not deleted,
\* and with the name of the snapshot in any case or with its weatherId
ToRemove(t) ==
  {item \in Items(tg[t].items) :
     /\ NotSoftDeleted(item)
     /\ \/ ToLowerCase(item.name) = ToLowerCase(tg[t].weatherData.city)
        \/ /\ Parses(item.metadata)
           /\ item.metadata.weatherId = tg[t].weatherData.weatherId}

\* the stored item is the soft-deleted form of item
MarkedDeleted(stored, item) ==
  /\ stored.id = item.id
  /\ stored.content = ""
  /\ Parses(stored.metadata) /\ stored.metadata.deleted
  /\ stored # item

\* the matching items of toggle t whose upsert succeeded
RemovedItems(t) ==
  {k \in 1..Len(tg[t].matchingItems) :
     \E i \in 1..Len(remote) : MarkedDeleted(remote[i], tg[t].matchingItems[k])}

\* C20: when toggleFavorite ran on a city that isCityInFavorites reported as
\* a favorite, every item of the list that is not deleted and has the
\* snapshot's name (in any case) or its weatherId was selected for a
\* soft-delete upsert; each stored item is as it was listed or is the
\* soft-deleted form (same id, content "", metadata.deleted = true) of a
\* selected item; and the call returned true exactly when at least one of
\* the upserts succeeded, false when the list failed or nothing matched.
C20_ToggleOffSoftDeletesEveryMatch ==
  \A t \in Togglers :
    (tg[t].pc = "done" /\ tg[t].isAlreadyFavorite)
    => /\ ToRemove(t) \subseteq Items(tg[t].matchingItems)
       /\ tg[t].listed
          => /\ Len(remote) = Len(tg[t].items)
             /\ \A i \in 1..Len(remote) :
                  \/ remote[i] = tg[t].items[i]
                  \/ /\ tg[t].items[i] \in Items(tg[t].matchingItems)
                     /\ MarkedDeleted(remote[i], tg[t].items[i])
       /\ tg[t].removedCount = Cardinality(RemovedItems(t))
       /\ tg[t].result = (RemovedItems(t) # {})
       /\ (~tg[t].listed \/ tg[t].matchingItems = << >>) => ~tg[t].result

\* two items were selected, one of them by its weatherId alone; one upsert
\* failed, the other succeeded and the call returned true
C20_Witness ==
  \E t \in Togglers :
    /\ tg[t].pc = "done" /\ tg[t].isAlreadyFavorite /\ tg[t].listed
    /\ Len(tg[t].matchingItems) = 2
    /\ \E item \in Items(tg[t].matchingItems) :
         ToLowerCase(item.name) # ToLowerCase(tg[t].weatherData.city)
    /\ Cardinality(RemovedItems(t)) = 1
    /\ tg[t].result

(***************************************************************************)
(* Properties of the batches.                                              *)
(***************************************************************************)
\* the tasks of a run that started and have not settled
ActiveRc(r) ==
  {j \in 1..Len(rc[r].tasks) : rc[r].tasks[j].pc \notin {"true", "false"}}
  \cup {-k : k \in {k \in 1..Len(rc[r].settled) :
                      rc[r].settled[k].pc \notin {"true", "false"}}}
ActivePp ==
  {j \in 1..Len(pp.tasks) : pp.tasks[j].pc # "end"}
  \cup {-k : k \in {k \in 1..Len(pp.settled) : pp.settled[k].pc # "end"}}

\* C21: in updateAllFavorites and in processPendingRequests the tasks of a
\* batch start only when every task of the batches before it has settled:
\* the tasks that have started are the settled tasks of the earlier batches
\* and the tasks of the current batch, so at most three tasks of one run
\* are active.
C21_BatchesDoNotOverlap ==
  /\ \A r \in Runs :
       /\ \A k \in 1..Len(rc[r].settled) : rc[r].settled[k].pc \in {"true", "false"}
       /\ rc[r].tasks # << >> => Len(rc[r].settled) = rc[r].i
       /\ Cardinality(ActiveRc(r)) <= batchSize
  /\ \A k \in 1..Len(pp.settled) : pp.settled[k].pc = "end"
  /\ pp.tasks # << >> => Len(pp.settled) = pp.i
  /\ Cardinality(ActivePp) <= drainBatchSize

\* the second batch of a reconcile run is active after three tasks of the
\* first batch settled, one of them with a saved update
C21_Witness ==
  \E r \in Runs :
    /\ rc[r].pc = "batch" /\ rc[r].i = batchSize
    /\ Len(rc[r].settled) = batchSize
    /\ \E k \in 1..Len(rc[r].settled) : rc[r].settled[k].saved = "ok"
    /\ ActiveRc(r) # {}

\* the callers whose fetchWeatherFromApi call has not returned
Fetching == {p \in Callers : gw[p].pc = "fetch"}

\* C22: the entry of a key is in the in-flight map only while the
\* fetchWeatherFromApi call that started its request has not returned, be
\* the outcome a snapshot or an error: once every started call returned the
\* map is empty, and every round-trip of a key other than its last one has
\* settled, so a later call for the key starts a new round-trip.
C22_InFlightEntryRemovedOnSettle ==
  /\ \A k \in DOMAIN activeRequests :
       \E p \in Fetching :
         /\ CityKey(gw[p].city) = k
         /\ gw[p].owner
         /\ gw[p].promise = activeRequests[k]
  /\ Fetching = {} => activeRequests = EmptyMap
  /\ \A p \in Fetching :
       gw[p].owner
       => /\ Has(activeRequests, CityKey(gw[p].city))
          /\ activeRequests[CityKey(gw[p].city)] = gw[p].promise
          /\ \A n \in RoundTrips(CityKey(gw[p].city)) :
               n < gw[p].promise => net[n].state # "pending"

\* after a call whose request failed returned, another call for the same
\* key has started a second round-trip
C22_Witness ==
  \E p, q \in Callers :
    /\ Done(p) /\ gw[p].fetchFailed /\ gw[p].netCalls = 1
    /\ gw[q].pc = "fetch" /\ gw[q].owner
    /\ CityKey(gw[q].city) = CityKey(gw[p].city)
    /\ Cardinality(RoundTrips(CityKey(gw[q].city))) = 2
    /\ net[gw[q].promise].state = "pending"

\* the tasks of run r, of the current batch and of the batches before it
RcTasks(r) == Items(rc[r].settled) \cup Items(rc[r].tasks)

\* the metadata of the favorite has numbers for lat and for lon
CarriesGeo(favorite) ==
  /\ Parses(favorite.metadata)
  /\ favorite.metadata.lat # Absent
  /\ favorite.metadata.lon # Absent

\* C23: the geo search is invoked for a candidate exactly when its metadata
\* lacks lat or lon; a candidate whose metadata has numbers for both, 0
\* included, is fetched at those coordinates; a candidate without geodata
\* whose search gave no result is skipped: no fetch, no upsert, not a
\* success.
C23_GeoSearchIffGeodataMissing ==
  \A r \in Runs : \A task \in RcTasks(r) :
    /\ task.searched <=> ~CarriesGeo(task.favorite)
    /\ (CarriesGeo(task.favorite) /\ task.pc # "geo" /\ task.city # NoCity)
       => /\ task.city.lat = task.favorite.metadata.lat
          /\ task.city.lon = task.favorite.metadata.lon
    /\ (task.searched /\ task.city = NoCity /\ task.pc # "geo")
       => /\ task.pc = "false"
          /\ task.fetched = "no" /\ task.saved = "no"

(***************************************************************************)
(* Properties of the favorites under interleaving.                         *)
(***************************************************************************)
\* the places in the store of the items that a toggle marked as deleted
ToggledOff ==
  {i \in 1..Len(remote) :
     \E t \in Togglers : \E k \in 1..Len(tg[t].matchingItems) :
       MarkedDeleted(remote[i], tg[t].matchingItems[k])}

\* C24: an item that toggleFavorite marked as deleted stays soft-deleted:
\* no later step, of a reconcile run that listed it before or of anything
\* else, stores it with content and without the deleted flag again.
C24_SoftDeleteSurvivesReconcile ==
  [][\A i \in ToggledOff : SoftDeleted(remote'[i])]_vars

\* the records of the store that are live and have the name of the city
LiveRecords(name) ==
  {i \in 1..Len(remote) :
     /\ NotSoftDeleted(remote[i])
     /\ ToLowerCase(remote[i].name) = ToLowerCase(name)}

\* every item of the store was added by a toggle of this behaviour: the
\* store held nothing when the toggles started
StoreWasEmpty ==
  Len(remote) = Cardinality({t \in Togglers :
                               ~tg[t].isAlreadyFavorite /\ tg[t].result})

\* C25: toggleFavorite calls for one city that overlap, both started while
\* the city is not a favorite, leave at most one live item for the city.
C25_OverlappingTogglesAddOneRecord ==
  (/\ \A t \in Togglers : tg[t].pc = "done" /\ ~tg[t].isAlreadyFavorite
   /\ StoreWasEmpty
   /\ rc["u1"].pc = "idle")
  => Cardinality(LiveRecords("Paris")) <= 1

(***************************************************************************)
(* Properties of the cache under interleaving                              *)
(***************************************************************************)
\* the cities of the queue that a step removes from it
Dequeued == {c \in Items(pendingStore) : Queued(pendingStore', c) = {}}

\* the drain attempted a fetch for the city: a task of a joined batch
Attempted(city) ==
  \E j \in 1..Len(pp.settled) :
    /\ pp.settled[j].city.name = city.name
    /\ pp.settled[j].city.country = city.country
    /\ pp.settled[j].fetched # "no"

\* C26: a city is removed from the pending queue only after a fetch was
\* attempted for it; a city that an offline cold miss enqueued while a
\* drain was in progress is not dropped by the queue clear of that drain.
C26_DequeuedOnlyAfterFetchAttempt ==
  [][\A city \in Dequeued : Attempted(city)]_vars

\* the calls that received a snapshot from fetchWeatherFromApi
Received == {p \in Callers : gw[p].freshData # Null}

\* C27: the snapshot a caller receives from fetchWeatherFromApi(city) was
\* fetched for the coordinates of that caller's city, also when a fetch
\* for the same name and country with other coordinates is in flight.
C27_SnapshotIsForOwnCoordinates ==
  \A p \in Received :
    /\ gw[p].freshData.lat = gw[p].city.lat
    /\ gw[p].freshData.lon = gw[p].city.lon

(***************************************************************************)
(* Properties of the metadata a favorite is stored with                    *)
(***************************************************************************)
\* the fields of a stored metadata object (JSON.stringify leaves out the
\* undefined ones)
MetadataFields(metadata) ==
  {f \in {"weatherId", "lat", "lon", "timezone", "sunrise", "sunset"} :
     metadata[f] # Absent}
  \cup (IF metadata.country # "" THEN {"country"} ELSE {})

\* the metadata toggleFavorite stores when it adds the snapshot
AddedMetadata(weatherData) ==
  MutationInput(ConvertToFavoriteData(weatherData)).metadata

\* the step in which the mutation of task j of run r succeeds
Updates(r, j) ==
  /\ rc[r].tasks[j].pc = "mutate"
  /\ rc'[r].tasks[j].pc = "true"

\* C29: a record updated by updateAllFavorites carries in its metadata
\* every field that toggleFavorite writes when it adds the same snapshot
\* as a new favorite (among them timezone, sunrise and sunset).
C29_ReconcileKeepsEveryMetadataField ==
  [][\A r \in Runs : \A j \in 1..Len(rc[r].tasks) :
       Updates(r, j) =>
         \A i \in 1..Len(remote') :
           remote'[i].id = rc[r].tasks[j].favorite.id =>
             MetadataFields(AddedMetadata(rc[r].tasks[j].weatherData))
               \subseteq MetadataFields(remote'[i].metadata)]_vars

(***************************************************************************)
(* Properties of the two cache maps                                        *)
(***************************************************************************)
\* no getWeatherData call (with its clearCityWeatherCache) and no drain is
\* in progress
CacheQuiescent ==
  /\ \A p \in Callers : ~Active(p)
  /\ pp.pc \in {"idle", "done"}

CacheKeys == DOMAIN weatherStore \cup DOMAIN timeStore

\* C28: in every quiescent state a cache key has a snapshot in the weather
\* map iff it has a timestamp in the last-fetch-time map.
C28_SnapshotIffTimestampWhenQuiescent ==
  CacheQuiescent =>
    \A k \in CacheKeys : Has(weatherStore, k) <=> HasTime(timeStore, k)

(***************************************************************************)
(* Properties of the runs the lifecycle starts                             *)
(***************************************************************************)
\* the triggers that await their updateAllFavorites() run and have not yet
\* seen it settle: the run is in progress
AwaitedRuns == {p \in {"init", "pull"} : life[p].pc = "run"}

\* C30: at most one updateAllFavorites run is in progress at any time: no
\* lifecycle trigger starts a run while a run that another trigger awaits
\* is still in progress.
C30_NoRunStartedWhileOneIsInProgress ==
  [][started' # started => AwaitedRuns = {}]_vars
====
